---- MODULE Spec2Model ----
(***************************************************************************)
(* Model of the collaborative editor backend (backend/app): the vector     *)
(* clock, the Operation value, the operational-transform engine            *)
(* AdvancedTextOT, the per-session OperationBuffer (ot.py) and the         *)
(* AdvancedConnectionManager (manager.py) with the session store it calls  *)
(* (sessions.py).                                                          *)
(*                                                                         *)
(* Texts are sequences of one-character strings.  Hashes (checksum,        *)
(* operation_id, state_hash) are modelled by the tuple of the values that  *)
(* are hashed, i.e. as collision-free.                                     *)
(***************************************************************************)
EXTENDS Integers, Sequences, FiniteSets, TLC

\* ------------------------------------------------------------------ bounds
MaxLen == 3
\* generic texts have 0..MaxLen characters
MaxPos == 3
\* generic operations have positions 0..MaxPos
MaxDelLen == 3
\* generic deletes have lengths 1..MaxDelLen
MaxClock == 2
\* vector clock entries drawn for comparison are 0..MaxClock
MaxHistory == 2
\* text_change messages are taken while the buffer history is shorter
MaxTime == 1
\* the wall clock runs over 0..MaxTime
max_requests == 2
\* _check_rate_limit's max_requests, 100 in the source
window_seconds == 2
\* _check_rate_limit's window_seconds, 60 in the source
MaxMessages == 2
\* the coordinator takes MaxMessages messages
MaxFailures == 1
\* with tasks, at most MaxFailures sends to open channels raise
ping_interval == 1
\* _health_check_loop's ping_interval, 30 in the source
MaxPending == 1
\* with tasks, at most MaxPending sends are suspended in send_text at a time

\* --------------------------------------------------------------- utilities
Min(x, y) == IF x < y THEN x ELSE y
Max(x, y) == IF x > y THEN x ELSE y

\* Python slices text[:n] and text[n:] for 0 <= n
Take(text, n) == SubSeq(text, 1, Min(n, Len(text)))
Drop(text, n) == SubSeq(text, Min(n, Len(text)) + 1, Len(text))

\* client ids in the order Python's string comparison gives them
ClientOrder == <<"X", "Y", "a", "b", "u1", "u2">>
ClientRank(c) == CHOOSE i \in 1..Len(ClientOrder) : ClientOrder[i] = c

\* ------------------------------------------------------------ VectorClock
\* A clock is a function from the client ids it has an entry for to naturals.
EmptyClock == [c \in {} |-> 0]

ClockGet(clocks, client_id) ==
    IF client_id \in DOMAIN clocks THEN clocks[client_id] ELSE 0

increment(clocks, client_id) ==
    [c \in DOMAIN clocks \cup {client_id} |->
        IF c = client_id THEN ClockGet(clocks, client_id) + 1 ELSE clocks[c]]

update(clocks, other) ==
    [c \in DOMAIN clocks \cup DOMAIN other |->
        IF c \in DOMAIN other
        THEN Max(ClockGet(clocks, c), other[c])
        ELSE clocks[c]]

compare(self, other) ==
    LET all_clients == DOMAIN self \cup DOMAIN other
        \* the flags carry the names the source gives them
        other_less == \E c \in all_clients : ClockGet(self, c) < ClockGet(other, c)
        self_less  == \E c \in all_clients : ClockGet(self, c) > ClockGet(other, c)
    IN  IF self_less /\ other_less THEN "concurrent"
        ELSE IF self_less /\ ~other_less THEN "before"
        ELSE IF other_less /\ ~self_less THEN "after"
        ELSE "equal"

\* -------------------------------------------------------------- Operation
INSERT == "insert"
DELETE == "delete"
RETAIN == "retain"

_generate_operation_id(client_id, timestamp, type, position) ==
    <<client_id, timestamp, type, position>>

_generate_checksum(type, position, text, length) ==
    <<type, position, text, length>>

\* __post_init__ raises ValueError unless this holds
PostInitAccepts(type, text, length) ==
    /\ ~(type = INSERT /\ text = <<>>)
    /\ ~(type = DELETE /\ length <= 0)

\* The dataclass constructor: operation_id and checksum are generated when
\* the argument is empty (<<>> stands for the empty string).
Operation(type, position, text, length, client_id, operation_id, vector_clock, timestamp, checksum) ==
    [type |-> type, position |-> position, text |-> text, length |-> length,
     client_id |-> client_id,
     operation_id |-> IF operation_id = <<>>
                      THEN _generate_operation_id(client_id, timestamp, type, position)
                      ELSE operation_id,
     vector_clock |-> vector_clock, timestamp |-> timestamp,
     checksum |-> IF checksum = <<>>
                  THEN _generate_checksum(type, position, text, length)
                  ELSE checksum]

verify_integrity(op) ==
    op.checksum = _generate_checksum(op.type, op.position, op.text, op.length)

create_insert_operation(position, text, client_id, timestamp) ==
    Operation(INSERT, position, text, 0, client_id, <<>>, EmptyClock, timestamp, <<>>)

create_delete_operation(position, length, client_id, timestamp) ==
    Operation(DELETE, position, <<>>, length, client_id, <<>>, EmptyClock, timestamp, <<>>)

\* --------------------------------------------------------- AdvancedTextOT
\* apply_operation raises ValueError exactly when the checksum does not match
apply_operation_raises(operation) == ~verify_integrity(operation)

\* apply_operation with a delete that takes length characters from the
\* clamped start
apply_operation_from_start(text, operation) ==
    LET text_len == Len(text) IN
    IF operation.type = INSERT THEN
        LET pos == Max(0, Min(operation.position, text_len))
        IN  Take(text, pos) \o operation.text \o Drop(text, pos)
    ELSE IF operation.type = DELETE THEN
        LET start_pos == Max(0, Min(operation.position, text_len))
        IN  Take(text, start_pos) \o Drop(text, start_pos + operation.length)
    ELSE text

\* the text apply_operation returns when it does not raise
apply_operation(text, operation) ==
    LET text_len == Len(text) IN
    IF operation.type = INSERT THEN
        LET pos == Max(0, Min(operation.position, text_len))
        IN  Take(text, pos) \o operation.text \o Drop(text, pos)
    ELSE IF operation.type = DELETE THEN
        LET start_pos == Max(0, Min(operation.position, text_len))
            end_pos == Max(start_pos,
                           Min(operation.position + operation.length, text_len))
        IN  Take(text, start_pos) \o Drop(text, end_pos)
    ELSE text

_operations_conflict(op1, op2) ==
    IF op1.type = RETAIN \/ op2.type = RETAIN THEN FALSE
    ELSE
        LET op1_start == op1.position
            op1_end == op1.position + (IF op1.type = DELETE THEN op1.length ELSE 0)
            op2_start == op2.position
            op2_end == op2.position + (IF op2.type = DELETE THEN op2.length ELSE 0)
        IN  ~(op1_end <= op2_start \/ op2_end <= op1_start)

_determine_priority(op1, op2) ==
    LET clock_comparison == compare(op1.vector_clock, op2.vector_clock) IN
    IF clock_comparison = "before" THEN "op1"
    ELSE IF clock_comparison = "after" THEN "op2"
    ELSE IF ClientRank(op1.client_id) < ClientRank(op2.client_id) THEN "op1"
    ELSE IF ClientRank(op1.client_id) > ClientRank(op2.client_id) THEN "op2"
    ELSE IF op1.timestamp < op2.timestamp THEN "op1" ELSE "op2"

\* an operation rebuilt with the checksum of the operation it comes from
Rebuilt_keeping_checksum(op, type, position, text, length) ==
    Operation(type, position, text, length, op.client_id, op.operation_id,
              op.vector_clock, op.timestamp, op.checksum)

\* an operation rebuilt by a transform: same identity, new position/kind/length
Rebuilt(op, type, position, text, length) ==
    Operation(type, position, text, length, op.client_id, op.operation_id,
              op.vector_clock, op.timestamp, <<>>)

_transform_insert_insert(op1, op2, priority) ==
    IF op1.position < op2.position THEN
        <<op1, Rebuilt(op2, op2.type, op2.position + Len(op1.text), op2.text, 0)>>
    ELSE IF op1.position > op2.position THEN
        <<Rebuilt(op1, op1.type, op1.position + Len(op2.text), op1.text, 0), op2>>
    ELSE IF priority = "op1" THEN
        <<op1, Rebuilt(op2, op2.type, op2.position + Len(op1.text), op2.text, 0)>>
    ELSE
        <<Rebuilt(op1, op1.type, op1.position + Len(op2.text), op1.text, 0), op2>>

_transform_insert_delete(op_insert, op_delete) ==
    LET delete_start == op_delete.position
        delete_end == op_delete.position + op_delete.length
    IN
    IF op_insert.position <= delete_start THEN
        <<op_insert,
          Rebuilt(op_delete, op_delete.type,
                  op_delete.position + Len(op_insert.text), <<>>, op_delete.length)>>
    ELSE IF op_insert.position >= delete_end THEN
        <<Rebuilt(op_insert, op_insert.type,
                  op_insert.position - op_delete.length, op_insert.text, 0),
          op_delete>>
    ELSE
        <<Rebuilt(op_insert, op_insert.type, delete_start, op_insert.text, 0),
          Rebuilt(op_delete, op_delete.type,
                  op_delete.position + Len(op_insert.text), <<>>, op_delete.length)>>

\* _transform_delete_delete with the overlap not taken off the lengths
_transform_delete_delete_keeps_length(op1, op2) ==
    LET op1_start == op1.position
        op1_end == op1.position + op1.length
        op2_start == op2.position
        op2_end == op2.position + op2.length
        op1_prime ==
            IF op2_end <= op1_start THEN
                Rebuilt(op1, op1.type, op1.position - op2.length, <<>>, op1.length)
            ELSE IF op2_start >= op1_end THEN op1
            ELSE Rebuilt(op1, op1.type, Min(op1_start, op2_start), <<>>, op1.length)
        op2_prime ==
            IF op1_end <= op2_start THEN
                Rebuilt(op2, op2.type, op2.position - op1.length, <<>>, op2.length)
            ELSE IF op1_start >= op2_end THEN op2
            ELSE Rebuilt(op2, op2.type, Min(op1_start, op2_start), <<>>, op2.length)
    IN  <<op1_prime, op2_prime>>

_transform_delete_delete(op1, op2) ==
    LET op1_start == op1.position
        op1_end == op1.position + op1.length
        op2_start == op2.position
        op2_end == op2.position + op2.length
        overlap_start == Max(op1_start, op2_start)
        overlap_end == Min(op1_end, op2_end)
        overlap_length == Max(0, overlap_end - overlap_start)
        op1_prime ==
            IF op2_end <= op1_start THEN
                Rebuilt(op1, op1.type, op1.position - op2.length, <<>>, op1.length)
            ELSE IF op2_start >= op1_end THEN op1
            ELSE IF op1.length - overlap_length <= 0 THEN
                Rebuilt(op1, RETAIN, Min(op1_start, op2_start), <<>>, 0)
            ELSE
                Rebuilt(op1, op1.type, Min(op1_start, op2_start), <<>>,
                        op1.length - overlap_length)
        op2_prime ==
            IF op1_end <= op2_start THEN
                Rebuilt(op2, op2.type, op2.position - op1.length, <<>>, op2.length)
            ELSE IF op1_start >= op2_end THEN op2
            ELSE IF op2.length - overlap_length <= 0 THEN
                Rebuilt(op2, RETAIN, Min(op1_start, op2_start), <<>>, 0)
            ELSE
                Rebuilt(op2, op2.type, Min(op1_start, op2_start), <<>>,
                        op2.length - overlap_length)
    IN  <<op1_prime, op2_prime>>

\* _transform_operation_pair without the swap back in the Delete/Insert branch
_transform_operation_pair_no_swap(op1, op2) ==
    IF op1.client_id = op2.client_id \/ ~_operations_conflict(op1, op2) THEN
        <<op1, op2>>
    ELSE
        LET priority == _determine_priority(op1, op2) IN
        IF op1.type = INSERT /\ op2.type = INSERT THEN
            _transform_insert_insert(op1, op2, priority)
        ELSE IF op1.type = INSERT /\ op2.type = DELETE THEN
            _transform_insert_delete(op1, op2)
        ELSE IF op1.type = DELETE /\ op2.type = INSERT THEN
            _transform_insert_delete(op2, op1)
        ELSE IF op1.type = DELETE /\ op2.type = DELETE THEN
            _transform_delete_delete(op1, op2)
        ELSE <<op1, op2>>

_transform_operation_pair(op1, op2) ==
    IF op1.client_id = op2.client_id \/ ~_operations_conflict(op1, op2) THEN
        <<op1, op2>>
    ELSE
        LET priority == _determine_priority(op1, op2) IN
        IF op1.type = INSERT /\ op2.type = INSERT THEN
            _transform_insert_insert(op1, op2, priority)
        ELSE IF op1.type = INSERT /\ op2.type = DELETE THEN
            _transform_insert_delete(op1, op2)
        ELSE IF op1.type = DELETE /\ op2.type = INSERT THEN
            LET r == _transform_insert_delete(op2, op1) IN <<r[2], r[1]>>
        ELSE IF op1.type = DELETE /\ op2.type = DELETE THEN
            _transform_delete_delete(op1, op2)
        ELSE <<op1, op2>>

\* op1 folded over ops2[i..], keeping the first coordinate
RECURSIVE FoldFirst(_, _, _)
FoldFirst(current_op1, ops2, i) ==
    IF i > Len(ops2) THEN current_op1
    ELSE FoldFirst(_transform_operation_pair(current_op1, ops2[i])[1], ops2, i + 1)

\* op2 folded over ops1[i..], keeping the second coordinate
RECURSIVE FoldSecond(_, _, _)
FoldSecond(ops1, current_op2, i) ==
    IF i > Len(ops1) THEN current_op2
    ELSE FoldSecond(ops1, _transform_operation_pair(ops1[i], current_op2)[2], i + 1)

transform_operations(ops1, ops2) ==
    IF ops1 = <<>> \/ ops2 = <<>> THEN <<ops1, ops2>>
    ELSE <<[k \in 1..Len(ops1) |-> FoldFirst(ops1[k], ops2, 1)],
           [k \in 1..Len(ops2) |-> FoldSecond(ops1, ops2[k], 1)]>>

\* -------------------------------------------------------- OperationBuffer
\* state_hash: sha256 over the content hash and the hash of the sorted clock items
_calculate_state_hash(content, vector_clock) == <<content, vector_clock>>

\* OperationBuffer.__init__
OperationBuffer(initial_content, client_id) ==
    [content |-> initial_content,
     client_id |-> client_id,
     operation_history |-> <<>>,
     pending_operations |-> <<>>,
     vector_clock |-> EmptyClock,
     state_hash |-> _calculate_state_hash(initial_content, EmptyClock),
     operations_processed |-> 0]

\* a VectorClock that is the very object it was made from
copy_same_object(clocks) == [clocks |-> clocks, same_object |-> TRUE]

\* VectorClock.copy: a new VectorClock object over a copy of the dict
copy(clocks) == [clocks |-> clocks, same_object |-> FALSE]

\* apply_local_operation keeping the operation as pending until it is
\* acknowledged
apply_local_operation_pending(buffer, operation) ==
    LET clock == increment(buffer.vector_clock, buffer.client_id)
        stamped == [operation EXCEPT !.client_id = buffer.client_id,
                                     !.vector_clock = clock]
        content == apply_operation(buffer.content, stamped)
    IN  [buffer |-> [buffer EXCEPT
                        !.vector_clock = clock,
                        !.content = content,
                        !.operation_history = Append(@, stamped),
                        !.pending_operations = Append(@, stamped),
                        !.operations_processed = @ + 1,
                        !.state_hash = _calculate_state_hash(content, clock)],
         operation |-> stamped, raised |-> apply_operation_raises(stamped),
         shares_clock |-> FALSE]

\* apply_local_operation: the buffer afterwards, the operation object as the
\* call leaves it (it is stamped in place), whether the operation's clock is
\* the buffer's own VectorClock object, and whether the call raised.
apply_local_operation(buffer, operation) ==
    LET clock == increment(buffer.vector_clock, buffer.client_id)
        stamped == [operation EXCEPT !.client_id = buffer.client_id,
                                     !.vector_clock = copy(clock).clocks]
        content == apply_operation(buffer.content, stamped)
    IN  IF apply_operation_raises(stamped) THEN
            [buffer |-> [buffer EXCEPT !.vector_clock = clock],
             operation |-> stamped, raised |-> TRUE,
             shares_clock |-> copy(clock).same_object]
        ELSE
            [buffer |-> [buffer EXCEPT
                            !.vector_clock = clock,
                            !.content = content,
                            !.operation_history = Append(@, stamped),
                            !.operations_processed = @ + 1,
                            !.state_hash = _calculate_state_hash(content, clock)],
             operation |-> stamped, raised |-> FALSE,
             shares_clock |-> copy(clock).same_object]

\* the content as it was before the last operation of the history, an
\* insert, was applied
get_content_before_last(buffer) ==
    LET history == buffer.operation_history
        last == history[Len(history)]
    IN  IF history = <<>> \/ last.type # INSERT THEN buffer.content
        ELSE Take(buffer.content, last.position)
                \o Drop(buffer.content, last.position + Len(last.text))

\* OperationBuffer.get_content
get_content(buffer) == buffer.content

\* apply_remote_operation merging the vector clock before it verifies
apply_remote_operation_clock_first(buffer, operation) ==
    LET clock == update(buffer.vector_clock, operation.vector_clock) IN
    [buffer |-> [buffer EXCEPT !.vector_clock = clock], raised |-> TRUE]

\* apply_remote_operation: the buffer afterwards and whether the call raised.
apply_remote_operation(buffer, operation) ==
    IF ~verify_integrity(operation) THEN [buffer |-> buffer, raised |-> TRUE]
    ELSE
        LET clock == update(buffer.vector_clock, operation.vector_clock)
            transformed == transform_operations(<<operation>>, buffer.pending_operations)
            op == IF buffer.pending_operations # <<>> THEN transformed[1][1] ELSE operation
            pending == IF buffer.pending_operations # <<>> THEN transformed[2]
                       ELSE buffer.pending_operations
            content == apply_operation(buffer.content, op)
        IN  IF apply_operation_raises(op) THEN
                [buffer |-> [buffer EXCEPT !.vector_clock = clock,
                                           !.pending_operations = pending],
                 raised |-> TRUE]
            ELSE
                [buffer |-> [buffer EXCEPT
                                !.vector_clock = clock,
                                !.pending_operations = pending,
                                !.content = content,
                                !.operation_history = Append(@, op),
                                !.operations_processed = @ + 1,
                                !.state_hash = _calculate_state_hash(content, clock)],
                 raised |-> FALSE]

\* ------------------------------------------------ parse_edit_to_operations
RECURSIVE PrefixLen(_, _, _)
\* the first while loop, from prefix_len = n
PrefixLen(old_text, new_text, n) ==
    IF n < Min(Len(old_text), Len(new_text)) /\ old_text[n + 1] = new_text[n + 1]
    THEN PrefixLen(old_text, new_text, n + 1)
    ELSE n

RECURSIVE SuffixLen_unbounded(_, _, _, _)
\* the second while loop letting the suffix run into the prefix
SuffixLen_unbounded(old_text, new_text, prefix_len, n) ==
    IF /\ n < Min(Len(old_text), Len(new_text))
       /\ old_text[Len(old_text) - n] = new_text[Len(new_text) - n]
    THEN SuffixLen_unbounded(old_text, new_text, prefix_len, n + 1)
    ELSE n

RECURSIVE SuffixLen(_, _, _, _)
\* the second while loop, from suffix_len = n
SuffixLen(old_text, new_text, prefix_len, n) ==
    IF /\ n < Min(Len(old_text), Len(new_text)) - prefix_len
       /\ old_text[Len(old_text) - n] = new_text[Len(new_text) - n]
    THEN SuffixLen(old_text, new_text, prefix_len, n + 1)
    ELSE n

\* a diff that only adds: what the old text has and the new one lacks stays
parse_edit_to_operations_inserts(old_text, new_text, client_id, timestamp) ==
    IF old_text = new_text THEN <<>>
    ELSE
        LET prefix_len == PrefixLen(old_text, new_text, 0)
            suffix_len == SuffixLen(old_text, new_text, prefix_len, 0)
            new_middle == SubSeq(new_text, prefix_len + 1, Len(new_text) - suffix_len)
        IN  IF new_middle # <<>>
            THEN <<create_insert_operation(prefix_len, new_middle, client_id, timestamp)>>
            ELSE <<>>

\* timestamp is the time.time() the Operation constructor reads
parse_edit_to_operations(old_text, new_text, client_id, timestamp) ==
    IF old_text = new_text THEN <<>>
    ELSE
        LET prefix_len == PrefixLen(old_text, new_text, 0)
            suffix_len == SuffixLen(old_text, new_text, prefix_len, 0)
            old_middle == SubSeq(old_text, prefix_len + 1, Len(old_text) - suffix_len)
            new_middle == SubSeq(new_text, prefix_len + 1, Len(new_text) - suffix_len)
        IN  IF old_middle # <<>> /\ new_middle # <<>> THEN
                <<create_delete_operation(prefix_len, Len(old_middle), client_id, timestamp),
                  create_insert_operation(prefix_len, new_middle, client_id, timestamp)>>
            ELSE IF old_middle # <<>> THEN
                <<create_delete_operation(prefix_len, Len(old_middle), client_id, timestamp)>>
            ELSE IF new_middle # <<>> THEN
                <<create_insert_operation(prefix_len, new_middle, client_id, timestamp)>>
            ELSE <<>>

\* ----------------------------------------------------------- dictionaries
DictSet(d, k, v) == [x \in DOMAIN d \cup {k} |-> IF x = k THEN v ELSE d[x]]
DictDel(d, k) == [x \in DOMAIN d \ {k} |-> d[x]]
EmptyDict == [x \in {} |-> 0]

\* ---------------------------------------------- DistributedSessionManager
\* The coordinator calls the store's methods as plain calls and uses what
\* they return as the SessionState; the model takes each call as run to
\* completion at the call, against one map session_id -> SessionState.
\* A coordinator state m carries the store in m.sessions and the scheduled
\* empty-session cleanups in m.cleanup_tasks.

\* stands for the welcome text create_session stores
WelcomeContent == <<"/", "/">>

\* <<>> stands for None, <<state>> for a SessionState
get_session(m, session_id) ==
    IF session_id \in DOMAIN m.sessions THEN <<m.sessions[session_id]>> ELSE <<>>

create_session(m, session_id) ==
    IF session_id \in DOMAIN m.sessions THEN m
    ELSE [m EXCEPT !.sessions =
            DictSet(@, session_id, [content |-> WelcomeContent, users |-> {}, version |-> 0])]

join_session(m, session_id, user_id) ==
    LET m1 == create_session(m, session_id) IN
    [m1 EXCEPT !.sessions[session_id].users = @ \cup {user_id}]

leave_session(m, session_id, user_id) ==
    IF session_id \notin DOMAIN m.sessions THEN m
    ELSE
        LET users == m.sessions[session_id].users \ {user_id} IN
        [m EXCEPT !.sessions[session_id].users = users,
                  !.cleanup_tasks = IF users = {} THEN @ \cup {session_id} ELSE @]

update_session_content(m, session_id, content) ==
    IF session_id \notin DOMAIN m.sessions THEN m
    ELSE [m EXCEPT !.sessions[session_id].content = content,
                   !.sessions[session_id].version = @ + 1]

\* the task _schedule_session_cleanup creates, once its delay has elapsed
cleanup_task(m, session_id) ==
    LET m1 == [m EXCEPT !.cleanup_tasks = @ \ {session_id}] IN
    IF session_id \in DOMAIN m.sessions /\ m.sessions[session_id].users = {}
    THEN [m1 EXCEPT !.sessions = DictDel(@, session_id)]
    ELSE m1

\* ---------------------------------------------- AdvancedConnectionManager
\* A coordinator state m carries the manager's dictionaries, the tasks that
\* asyncio.create_task has created and the event loop has not run yet
\* (m.tasks, in creation order), and per websocket the messages whose
\* send_text was carried out (m.outbox).

\* get_state() of an OperationBuffer
get_state(buffer) ==
    [content |-> buffer.content, vector_clock |-> buffer.vector_clock,
     state_hash |-> buffer.state_hash,
     operations_processed |-> buffer.operations_processed]

\* Operation.to_dict
to_dict(op) ==
    [type |-> op.type, position |-> op.position, text |-> op.text,
     length |-> op.length, client_id |-> op.client_id,
     operation_id |-> op.operation_id, vector_clock |-> op.vector_clock,
     timestamp |-> op.timestamp, checksum |-> op.checksum]

\* Operation.from_dict: the constructor is run on the fields of the dictionary
from_dict(data) ==
    Operation(data.type, data.position, data.text, data.length, data.client_id,
              data.operation_id, data.vector_clock, data.timestamp, data.checksum)

\* the messages the coordinator sends (time stamps left out)
SessionJoined(session_id, user_id, content, users, buffer_state) ==
    [type |-> "session_joined", session_id |-> session_id, user_id |-> user_id,
     content |-> content, users |-> users, buffer_state |-> buffer_state]
UserJoined(user_id) == [type |-> "user_joined", user_id |-> user_id]
UserLeft(user_id) == [type |-> "user_left", user_id |-> user_id]
TextChange(content, user_id, operations, vector_clock) ==
    [type |-> "text_change", content |-> content, user_id |-> user_id,
     operations |-> operations, vector_clock |-> vector_clock]
CursorChange(user_id, position) ==
    [type |-> "cursor_change", user_id |-> user_id, position |-> position]
Pong == [type |-> "pong"]
Ping == [type |-> "ping"]
MetricsReply == [type |-> "metrics"]
ErrorReply(message) == [type |-> "error", message |-> message]

\* PerformanceMetrics.record_error
record_error(m, error_type) ==
    [m EXCEPT !.metrics.error_count =
        DictSet(@, error_type,
                (IF error_type \in DOMAIN @ THEN @[error_type] ELSE 0) + 1)]

RECURSIVE record_errors(_, _, _)
\* record_error called n times
record_errors(m, error_type, n) ==
    IF n = 0 THEN m ELSE record_errors(record_error(m, error_type), error_type, n - 1)

\* websocket.send_text carried out: the message reaches the client
send_text(m, websocket, message) ==
    [m EXCEPT !.outbox[websocket] = Append(@, message)]

\* send_personal_message; send_text raises for the websockets in failed
send_personal_message(m, message, websocket, failed) ==
    IF websocket \in failed THEN record_error(m, "send_error")
    ELSE send_text(m, websocket, message)

\* disconnect(websocket); the user_left broadcast it hands to
\* asyncio.create_task is appended to m.tasks
disconnect_registered(m, websocket) ==
        LET session_id == m.connection_info[websocket].session_id
            user_id == m.connection_info[websocket].user_id
            remaining ==
                IF session_id \in DOMAIN m.active_connections
                THEN m.active_connections[session_id] \ {websocket}
                ELSE {}
            m1 == [m EXCEPT !.active_connections =
                        IF session_id \notin DOMAIN @ THEN @
                        ELSE IF remaining = {} THEN DictDel(@, session_id)
                        ELSE DictSet(@, session_id, remaining)]
            m2 == leave_session(m1, session_id, user_id)
        IN  [m2 EXCEPT !.connection_info = DictDel(@, websocket),
                       !.health_checks = DictDel(@, websocket),
                       !.metrics.active_connections = @ - 1,
                       !.tasks = Append(@, [kind |-> "broadcast",
                                            message |-> UserLeft(user_id),
                                            session_id |-> session_id])]

\* disconnect lowering the counter before it looks the websocket up
disconnect_counting(m, websocket) ==
    IF websocket \notin DOMAIN m.connection_info
    THEN [m EXCEPT !.metrics.active_connections = @ - 1]
    ELSE disconnect_registered(m, websocket)

\* disconnect: nothing happens for a websocket that is not registered
disconnect(m, websocket) ==
    IF websocket \notin DOMAIN m.connection_info THEN m
    ELSE disconnect_registered(m, websocket)

RECURSIVE disconnect_all(_, _)
\* the loop "for connection in connections_to_remove: self.disconnect(connection)"
disconnect_all(m, connections_to_remove) ==
    IF connections_to_remove = {} THEN m
    ELSE LET connection == CHOOSE c \in connections_to_remove : TRUE
         IN  disconnect_all(disconnect(m, connection), connections_to_remove \ {connection})

\* the connections broadcast_to_session creates a send task for
broadcast_targets(m, session_id, exclude) ==
    IF session_id \notin DOMAIN m.active_connections THEN {}
    ELSE m.active_connections[session_id] \ exclude

\* the task _send_to_connection when its send_text is carried out
_send_to_connection(m, connection, message_json) ==
    send_text(m, connection, message_json)

RECURSIVE run_send_tasks(_, _, _)
\* the send tasks of one broadcast run, each to its end
run_send_tasks(m, connections, message_json) ==
    IF connections = {} THEN m
    ELSE LET connection == CHOOSE c \in connections : TRUE
         IN  run_send_tasks(_send_to_connection(m, connection, message_json),
                            connections \ {connection}, message_json)

\* broadcast_to_session after its last "await task": one broadcast_error for
\* each send that raised, then the failed connections are disconnected
broadcast_cleanup(m, connections_to_remove) ==
    disconnect_all(
        record_errors(m, "broadcast_error", Cardinality(connections_to_remove)),
        connections_to_remove)

\* broadcast_to_session when the send tasks run to their end one after the
\* other and the sends to the connections in failed raise
broadcast_to_session(m, message, session_id, exclude, failed) ==
    IF session_id \notin DOMAIN m.active_connections THEN m
    ELSE
        LET targets == broadcast_targets(m, session_id, exclude)
        IN  broadcast_cleanup(run_send_tasks(m, targets \ failed, message),
                              targets \cap failed)

\* connect(websocket, session_id, user_id) up to its broadcast_to_session
connect_register(m, websocket, session_id, user_id, failed, now) ==
    LET session == get_session(m, session_id)
        initial_content == IF session # <<>> THEN session[1].content ELSE <<>>
        m1 == IF session_id \notin DOMAIN m.active_connections
              THEN [m EXCEPT !.active_connections = DictSet(@, session_id, {}),
                             !.session_buffers =
                                DictSet(@, session_id, OperationBuffer(initial_content, user_id))]
              ELSE m
        m2 == [m1 EXCEPT
                !.active_connections[session_id] = @ \cup {websocket},
                !.connection_info = DictSet(@, websocket,
                    [user_id |-> user_id, session_id |-> session_id,
                     cursor_position |-> 0, vector_clock |-> EmptyClock]),
                !.health_checks = DictSet(@, websocket, now)]
        m3 == join_session(m2, session_id, user_id)
        joined == get_session(m3, session_id)
        buffer_state == get_state(m3.session_buffers[session_id])
    IN  send_personal_message(m3,
            SessionJoined(session_id, user_id,
                          IF joined # <<>> THEN joined[1].content ELSE <<>>,
                          IF joined # <<>> THEN joined[1].users ELSE {},
                          buffer_state),
            websocket, failed)

\* connect after its broadcast_to_session returned
connect_return(m) ==
    [m EXCEPT !.metrics.total_connections = @ + 1,
              !.metrics.active_connections = @ + 1]

\* connect(websocket, session_id, user_id)
connect(m, websocket, session_id, user_id, failed, now) ==
    connect_return(
        broadcast_to_session(
            connect_register(m, websocket, session_id, user_id, failed, now),
            UserJoined(user_id), session_id, {websocket}, failed))

RECURSIVE apply_local_operations(_, _, _, _)
\* the loop over operations in handle_text_change, from operations[i]: the
\* buffer afterwards and the operation objects as apply_local_operation
\* left them
apply_local_operations(buffer, operations, i, applied_ops) ==
    IF i > Len(operations) THEN [buffer |-> buffer, operations |-> applied_ops]
    ELSE LET r == apply_local_operation(buffer, operations[i])
         IN  apply_local_operations(r.buffer, operations, i + 1,
                                    Append(applied_ops, r.operation))

\* handle_text_change up to its broadcast_to_session: the state afterwards
\* and the message to broadcast (<<>> when the handler returned before).
\* The operations parse_edit_to_operations builds pass verify_integrity, so
\* apply_local_operation does not raise and the except clause is not entered.
handle_text_change(m, websocket, message, now) ==
    LET info == m.connection_info[websocket]
        session_id == info.session_id
        user_id == info.user_id
        session == get_session(m, session_id)
        initial_content == IF session # <<>> THEN session[1].content ELSE <<>>
        m1 == IF session_id \notin DOMAIN m.session_buffers
              THEN [m EXCEPT !.session_buffers =
                        DictSet(@, session_id, OperationBuffer(initial_content, user_id))]
              ELSE m
        buffer == m1.session_buffers[session_id]
        old_content == get_content(buffer)
        operations == parse_edit_to_operations(old_content, message.content, user_id, now)
        clock == update(info.vector_clock, message.vector_clock)
        stamped == [k \in 1..Len(operations) |->
                        [operations[k] EXCEPT !.vector_clock = clock]]
        applied == apply_local_operations(buffer, stamped, 1, <<>>)
        m2 == [m1 EXCEPT !.connection_info[websocket].vector_clock = clock,
                         !.session_buffers[session_id] = applied.buffer]
        m3 == update_session_content(m2, session_id, applied.buffer.content)
        m4 == [m3 EXCEPT !.connection_info[websocket].cursor_position =
                            message.cursor_position]
    IN  IF operations = <<>> THEN [m |-> m1, broadcast |-> <<>>]
        ELSE [m |-> m4,
              broadcast |-> <<TextChange(applied.buffer.content, user_id,
                                [k \in 1..Len(operations) |-> to_dict(applied.operations[k])],
                                clock)>>]

\* handle_cursor_change up to its broadcast_to_session
handle_cursor_change(m, websocket, message) ==
    [m |-> [m EXCEPT !.connection_info[websocket].cursor_position = message.position],
     broadcast |-> <<CursorChange(m.connection_info[websocket].user_id, message.position)>>]

RECURSIVE PopOld(_, _)
\* "while user_requests and user_requests[0] < limit: user_requests.popleft()"
PopOld(user_requests, limit) ==
    IF user_requests # <<>> /\ user_requests[1] < limit
    THEN PopOld(Tail(user_requests), limit)
    ELSE user_requests

\* _check_rate_limit letting one request more through
_check_rate_limit_off_by_one(m, user_id, now) ==
    LET user_requests ==
            PopOld(IF user_id \in DOMAIN m.rate_limits THEN m.rate_limits[user_id] ELSE <<>>,
                   now - window_seconds)
    IN  IF Len(user_requests) > max_requests
        THEN [m |-> [m EXCEPT !.rate_limits = DictSet(@, user_id, user_requests)],
              allowed |-> FALSE]
        ELSE [m |-> [m EXCEPT !.rate_limits = DictSet(@, user_id, Append(user_requests, now))],
              allowed |-> TRUE]

\* _check_rate_limit(user_id): the state afterwards and the value returned
_check_rate_limit(m, user_id, now) ==
    LET user_requests ==
            PopOld(IF user_id \in DOMAIN m.rate_limits THEN m.rate_limits[user_id] ELSE <<>>,
                   now - window_seconds)
    IN  IF Len(user_requests) >= max_requests
        THEN [m |-> [m EXCEPT !.rate_limits = DictSet(@, user_id, user_requests)],
              allowed |-> FALSE]
        ELSE [m |-> [m EXCEPT !.rate_limits = DictSet(@, user_id, Append(user_requests, now))],
              allowed |-> TRUE]

\* handle_message(websocket, message) up to the broadcast_to_session of the
\* handler it calls: the state afterwards and the message to broadcast to
\* the other connections of the session (<<>> when there is none).
\* last_activity, the latency samples and the message counters are not part
\* of the state kept here.
handle_message_begin(m, websocket, message, failed, now) ==
    IF websocket \notin DOMAIN m.connection_info THEN [m |-> m, broadcast |-> <<>>]
    ELSE
        LET user_id == m.connection_info[websocket].user_id
            checked == _check_rate_limit(m, user_id, now)
            m1 == checked.m
        IN  IF ~checked.allowed THEN
                [m |-> record_error(
                            send_personal_message(m1, ErrorReply("Rate limit exceeded"),
                                                  websocket, failed),
                            "rate_limit_exceeded"),
                 broadcast |-> <<>>]
            ELSE IF message.type = "text_change" THEN
                handle_text_change(m1, websocket, message, now)
            ELSE IF message.type = "cursor_change" THEN
                handle_cursor_change(m1, websocket, message)
            ELSE IF message.type = "ping" THEN
                [m |-> send_personal_message(m1, Pong, websocket, failed),
                 broadcast |-> <<>>]
            ELSE IF message.type = "get_metrics" THEN
                [m |-> send_personal_message(m1, MetricsReply, websocket, failed),
                 broadcast |-> <<>>]
            ELSE [m |-> record_error(m1, "unknown_message_type"), broadcast |-> <<>>]

\* handle_message(websocket, message)
handle_message(m, websocket, message, failed, now) ==
    LET r == handle_message_begin(m, websocket, message, failed, now) IN
    IF r.broadcast = <<>> THEN r.m
    ELSE broadcast_to_session(r.m, r.broadcast[1],
                              m.connection_info[websocket].session_id,
                              {websocket}, failed)

\* send_personal_message catches every exception of send_text: its caller
\* never sees one
send_personal_message_raises(message, websocket, failed) == FALSE

\* _health_check_loop: the websockets whose last ping is older than
\* ping_interval
due_for_ping(m, current_time) ==
    {websocket \in DOMAIN m.health_checks :
        current_time - m.health_checks[websocket] > ping_interval}

RECURSIVE ping_connections(_, _, _, _, _)
\* _health_check_loop: the for loop over health_checks, send_text raising
\* for the websockets in failed; it gives the coordinator and the
\* stale_connections
ping_connections(m, websockets, failed, current_time, stale_connections) ==
    IF websockets = {} THEN [m |-> m, stale_connections |-> stale_connections]
    ELSE LET websocket == CHOOSE w \in websockets : TRUE
             m1 == send_personal_message(m, Ping, websocket, failed)
         IN  IF send_personal_message_raises(Ping, websocket, failed)
             THEN ping_connections(m1, websockets \ {websocket}, failed, current_time,
                                   stale_connections \cup {websocket})
             ELSE ping_connections([m1 EXCEPT !.health_checks[websocket] = current_time],
                                   websockets \ {websocket}, failed, current_time,
                                   stale_connections)

\* _health_check_loop: one turn of the while loop up to its sleep
health_check_sweep(m, failed, current_time) ==
    LET pinged == ping_connections(m, due_for_ping(m, current_time), failed, current_time, {})
    IN  disconnect_all(pinged.m, pinged.stale_connections)

\* ================================================================== state
VARIABLES
    \* two replicas exchanging one transformed pair (transform kernel)
    text, op1, op2, pair, rev_pair, replica1, replica2, ot_pc,
    \* vector clock objects
    vc_self, vc_other, vc_before, vc_result, vc_pc,
    \* two OperationBuffer replicas exchanging their operations
    buffers, authored, applied,
    \* the last apply_remote_operation call: its replica, its argument and
    \* whether it raised
    remote,
    \* per replica, the apply_local_operation call it made: the buffer before,
    \* the argument, the operation and the vector clock the call left
    local,
    \* the connection manager (manager.py)
    active_connections, connection_info, session_buffers, health_checks, metrics,
    rate_limits,
    \* the tasks created with asyncio.create_task and not yet run, oldest first
    tasks,
    \* per websocket, the messages sent to its client and not yet read by it,
    \* oldest first
    outbox,
    \* the handle_message calls made so far: websocket, user, time, whether
    \* the rate-limit check let the call pass
    requests,
    \* the broadcast_to_session calls suspended at "await task", by call number,
    \* and the call that returned last
    awaiting, completed,
    \* per websocket, the operations of the text_change messages its client
    \* has received, oldest first
    received,
    \* the session store (sessions.py) and its scheduled empty-session cleanups
    sessions, cleanup_tasks,
    \* the endpoint task of each websocket (main.py) and the wall clock
    ws_state, now,
    \* an Operation object and what from_dict makes of its to_dict
    wire_op, wire_back,
    \* two texts and the operations parse_edit_to_operations makes of them
    old_text, new_text, edit_ops,
    \* a text, a list of operations and what apply_operations makes of them
    batch_text, batch_ops, batch_result,
    \* the session store (sessions.py): the Redis keys session:<id>, the local
    \* cache and its timestamps, the cleanup tasks created and not yet run,
    \* the time, and per session the versions the last get_session calls gave
    redis, _local_cache, _cache_timestamps, _background_tasks, store_time, versions,
    \* one Operation: the arguments of its constructor, what the constructor
    \* made of them, a text, and what apply_operation made of the text
    unit_args, unit_op, unit_text, unit_result

otVars == <<text, op1, op2, pair, rev_pair, replica1, replica2, ot_pc>>
vcVars == <<vc_self, vc_other, vc_before, vc_result, vc_pc>>
bufVars == <<buffers, authored, applied, remote, local>>
mgrVars == <<active_connections, connection_info, session_buffers, health_checks, metrics, rate_limits, tasks, outbox, requests, awaiting, completed, received, sessions, cleanup_tasks, ws_state, now>>
batchVars == <<batch_text, batch_ops, batch_result>>
storeVars == <<redis, _local_cache, _cache_timestamps, _background_tasks, store_time, versions>>
unitVars == <<unit_args, unit_op, unit_text, unit_result>>
opVars == <<wire_op, wire_back, old_text, new_text, edit_ops, batchVars, storeVars, unitVars>>
vars == <<otVars, vcVars, bufVars, mgrVars, opVars>>

\* ----------------------------------------------------------- input sets
Letters == <<"A", "B", "C", "D", "E", "F", "G", "H">>
\* the generic text of n pairwise different characters
GenericText(n) == [i \in 1..n |-> Letters[i]]
GenericTexts == {GenericText(n) : n \in 0..MaxLen}
InsertTexts == {<<"x">>, <<"y", "y">>}
OTClients == {"a", "b"}
OpClocks == {EmptyClock, [c \in {"a"} |-> 1]}

GenericOps(client_id, clocks) ==
    LET Stamp(op, vc) == [op EXCEPT !.vector_clock = vc] IN
    {Stamp(create_insert_operation(p, t, client_id, 1), vc) :
        p \in 0..MaxPos, t \in InsertTexts, vc \in clocks}
    \cup {Stamp(create_delete_operation(p, n, client_id, 1), vc) :
        p \in 0..MaxPos, n \in 1..MaxDelLen, vc \in clocks}
    \cup {Operation(RETAIN, 0, <<>>, 0, client_id, <<>>, vc, 1, <<>>) : vc \in clocks}

ClockOf(client_id) == [c \in {client_id} |-> 1]
ScenarioInsert(p, t, client_id) ==
    [create_insert_operation(p, t, client_id, 1) EXCEPT !.vector_clock = ClockOf(client_id)]
ScenarioDelete(p, n, client_id) ==
    [create_delete_operation(p, n, client_id, 1) EXCEPT !.vector_clock = ClockOf(client_id)]

HELLO == <<"H", "E", "L", "L", "O">>
S1 == <<<<"A", "B", "C">>, ScenarioInsert(0, <<"X">>, "X"), ScenarioInsert(3, <<"Y">>, "Y")>>
S2 == <<<<>>, ScenarioInsert(0, <<"A">>, "a"), ScenarioInsert(0, <<"B">>, "b")>>
S3 == <<HELLO, ScenarioDelete(0, 3, "X"), ScenarioDelete(2, 3, "Y")>>
S4 == <<HELLO, ScenarioInsert(2, <<"x", "x">>, "X"), ScenarioDelete(1, 3, "Y")>>
Scenarios == {S1, S2, S3, S4}

\* ------------------------------------------------------- idle sub-models
OTIdle ==
    /\ text = <<>> /\ op1 = <<>> /\ op2 = <<>> /\ pair = <<>> /\ rev_pair = <<>>
    /\ replica1 = <<>> /\ replica2 = <<>> /\ ot_pc = "idle"
VCIdle ==
    /\ vc_self = EmptyClock /\ vc_other = EmptyClock /\ vc_before = EmptyClock
    /\ vc_result = "none" /\ vc_pc = "idle"
BufIdle ==
    /\ buffers = <<>> /\ authored = <<>> /\ applied = <<>> /\ remote = <<>>
    /\ local = <<>>
BatchIdle ==
    /\ batch_text = <<>> /\ batch_ops = <<>> /\ batch_result = <<>>
StoreIdle ==
    /\ redis = <<>> /\ _local_cache = <<>> /\ _cache_timestamps = <<>>
    /\ _background_tasks = {} /\ store_time = 0 /\ versions = <<>>
UnitIdle ==
    /\ unit_args = <<>> /\ unit_op = <<>> /\ unit_text = <<>> /\ unit_result = <<>>
OpIdle ==
    /\ wire_op = <<>> /\ wire_back = <<>>
    /\ old_text = <<>> /\ new_text = <<>> /\ edit_ops = <<>>
    /\ BatchIdle /\ StoreIdle /\ UnitIdle
MgrIdle ==
    /\ active_connections = EmptyDict /\ connection_info = EmptyDict
    /\ session_buffers = EmptyDict /\ health_checks = EmptyDict
    /\ metrics = [total_connections |-> 0, active_connections |-> 0, error_count |-> EmptyDict]
    /\ rate_limits = EmptyDict /\ tasks = <<>> /\ outbox = EmptyDict /\ requests = <<>>
    /\ awaiting = EmptyDict /\ completed = <<>> /\ received = EmptyDict
    /\ sessions = EmptyDict /\ cleanup_tasks = {}
    /\ ws_state = EmptyDict /\ now = 0

\* ===================================================== transform kernel
\* Two replicas start from the same text; each applies its own operation as
\* authored and the other one's operation as _transform_operation_pair
\* returns it.
OTInit ==
    /\ \/ /\ text \in GenericTexts
          /\ \E c1 \in OTClients, c2 \in OTClients :
                /\ op1 \in GenericOps(c1, OpClocks)
                /\ op2 \in GenericOps(c2, OpClocks)
       \/ \E s \in Scenarios : text = s[1] /\ op1 = s[2] /\ op2 = s[3]
    /\ pair = <<>> /\ rev_pair = <<>>
    /\ replica1 = text /\ replica2 = text
    /\ ot_pc = "start"
    /\ VCIdle /\ BufIdle /\ MgrIdle /\ OpIdle

OTTransform ==
    /\ ot_pc = "start"
    /\ pair' = _transform_operation_pair(op1, op2)
    /\ rev_pair' = _transform_operation_pair(op2, op1)
    /\ ot_pc' = "transformed"
    /\ UNCHANGED <<text, op1, op2, replica1, replica2, vcVars, bufVars, mgrVars, opVars>>

OTApplyOwn ==
    /\ ot_pc = "transformed"
    /\ ~apply_operation_raises(op1) /\ ~apply_operation_raises(op2)
    /\ replica1' = apply_operation(text, op1)
    /\ replica2' = apply_operation(text, op2)
    /\ ot_pc' = "own"
    /\ UNCHANGED <<text, op1, op2, pair, rev_pair, vcVars, bufVars, mgrVars, opVars>>

OTApplyOther ==
    /\ ot_pc = "own"
    /\ ~apply_operation_raises(pair[2]) /\ ~apply_operation_raises(pair[1])
    /\ replica1' = apply_operation(replica1, pair[2])
    /\ replica2' = apply_operation(replica2, pair[1])
    /\ ot_pc' = "done"
    /\ UNCHANGED <<text, op1, op2, pair, rev_pair, vcVars, bufVars, mgrVars, opVars>>

OTNext == OTTransform \/ OTApplyOwn \/ OTApplyOther
SpecOT == OTInit /\ [][OTNext]_vars

\* ========================================================= vector clocks
VCClients == {"a", "b"}
\* every clock over VCClients: an entry may be absent or hold 0..MaxClock
AllClocks == UNION {[D -> 0..MaxClock] : D \in SUBSET VCClients}

VCInit ==
    /\ vc_self \in AllClocks /\ vc_other \in AllClocks
    /\ vc_before = EmptyClock /\ vc_result = "none" /\ vc_pc = "start"
    /\ OTIdle /\ BufIdle /\ MgrIdle /\ OpIdle

\* vc_self.compare(vc_other)
VCCompare ==
    /\ vc_pc = "start"
    /\ vc_result' = compare(vc_self, vc_other)
    /\ vc_pc' = "compared"
    /\ UNCHANGED <<vc_self, vc_other, vc_before, otVars, bufVars, mgrVars, opVars>>

\* vc_before = vc_self.copy(); vc_self.increment(c)
VCIncrement(c) ==
    /\ vc_pc = "start"
    /\ vc_before' = vc_self
    /\ vc_self' = increment(vc_self, c)
    /\ vc_pc' = "incremented"
    /\ UNCHANGED <<vc_other, vc_result, otVars, bufVars, mgrVars, opVars>>

\* vc_self.compare(vc_before) after the increment
VCCompareBefore ==
    /\ vc_pc = "incremented"
    /\ vc_result' = compare(vc_self, vc_before)
    /\ vc_pc' = "monotone"
    /\ UNCHANGED <<vc_self, vc_other, vc_before, otVars, bufVars, mgrVars, opVars>>

\* vc_self.update(vc_other)
VCUpdate ==
    /\ vc_pc = "start"
    /\ vc_before' = vc_self
    /\ vc_self' = update(vc_self, vc_other)
    /\ vc_pc' = "merged"
    /\ UNCHANGED <<vc_other, vc_result, otVars, bufVars, mgrVars, opVars>>

VCNext ==
    \/ VCCompare
    \/ \E c \in VCClients : VCIncrement(c)
    \/ VCCompareBefore
    \/ VCUpdate
SpecVC == VCInit /\ [][VCNext]_vars

\* ====================================================== buffer replicas
\* Two OperationBuffers start from the same content.  Each applies the
\* operation its own client authored with apply_local_operation and the
\* operation of the other one, as that call stamped it, with
\* apply_remote_operation, in either order.
Replicas == {1, 2}
BufClient == <<"a", "b">>

BufInit ==
    /\ \E T \in GenericTexts : buffers = [r \in Replicas |-> OperationBuffer(T, BufClient[r])]
    /\ authored \in [Replicas -> GenericOps("a", {EmptyClock}) \cup GenericOps("b", {EmptyClock})]
    /\ \A r \in Replicas : authored[r].client_id = BufClient[r]
    /\ applied = [r \in Replicas |-> {}]
    /\ remote = <<>>
    /\ local = <<>>
    /\ OTIdle /\ VCIdle /\ MgrIdle /\ OpIdle

BufApplyLocal(r) ==
    /\ r \notin applied[r]
    /\ LET res == apply_local_operation(buffers[r], authored[r]) IN
        /\ buffers' = [buffers EXCEPT ![r] = res.buffer]
        /\ authored' = [authored EXCEPT ![r] = res.operation]
    /\ applied' = [applied EXCEPT ![r] = @ \cup {r}]
    /\ UNCHANGED <<remote, local, otVars, vcVars, mgrVars, opVars>>

BufApplyRemote(r, o) ==
    /\ o # r /\ o \in applied[o] /\ o \notin applied[r]
    /\ buffers' = [buffers EXCEPT ![r] = apply_remote_operation(@, authored[o]).buffer]
    /\ applied' = [applied EXCEPT ![r] = @ \cup {o}]
    /\ UNCHANGED <<authored, remote, local, otVars, vcVars, mgrVars, opVars>>

\* the operation with a content field changed on the way and the checksum
\* it was sent with
Tampered(operation) ==
    {[operation EXCEPT !.position = @ + 1],
     [operation EXCEPT !.length = @ + 1],
     [operation EXCEPT !.text = Append(@, "x")]}

\* replica r is given a tampered copy of the other client's operation
BufApplyTampered(r, o) ==
    /\ o # r /\ o \in applied[o] /\ o \notin applied[r]
    /\ \E operation \in Tampered(authored[o]) :
        LET res == apply_remote_operation(buffers[r], operation) IN
            /\ buffers' = [buffers EXCEPT ![r] = res.buffer]
            /\ remote' = <<[replica |-> r, operation |-> operation, raised |-> res.raised]>>
    /\ UNCHANGED <<authored, applied, local, otVars, vcVars, mgrVars, opVars>>

BufNext ==
    \/ \E r \in Replicas : BufApplyLocal(r)
    \/ \E r \in Replicas, o \in Replicas : BufApplyRemote(r, o)
SpecBuf == BufInit /\ [][BufNext]_vars

\* the replicas also receive tampered operations
TamperNext ==
    \/ \E r \in Replicas : BufApplyLocal(r)
    \/ \E r \in Replicas, o \in Replicas : BufApplyRemote(r, o)
    \/ \E r \in Replicas, o \in Replicas : BufApplyTampered(r, o)
SpecTamper == BufInit /\ [][TamperNext]_vars

\* the replicas start from the longest text
HashInit == BufInit /\ \A r \in Replicas : buffers[r].content = GenericText(MaxLen)

\* replica r is given, as its local operation, a copy of its operation with
\* a content field changed after the checksum was made; it is the first
\* call with such an operation
BufLocalTampered(r) ==
    /\ r \notin applied[r]
    /\ remote = <<>>
    /\ \E operation \in Tampered(authored[r]) :
        LET res == apply_local_operation(buffers[r], operation) IN
            /\ buffers' = [buffers EXCEPT ![r] = res.buffer]
            /\ remote' = <<[replica |-> r, operation |-> operation, raised |-> res.raised]>>
    /\ UNCHANGED <<authored, applied, local, otVars, vcVars, mgrVars, opVars>>

\* local and remote calls, with operations that verify and that do not
HashNext ==
    \/ \E r \in Replicas : BufApplyLocal(r)
    \/ \E r \in Replicas, o \in Replicas : BufApplyRemote(r, o)
    \/ \E r \in Replicas, o \in Replicas : BufApplyTampered(r, o)
    \/ \E r \in Replicas : BufLocalTampered(r)
SpecHash == HashInit /\ [][HashNext]_vars

\* ------------------------------------------------- local operations
\* Each replica is handed an operation made for either client, applies it
\* with apply_local_operation and applies the other replica's operation with
\* apply_remote_operation, in either order.
LocalTexts == {GenericText(MaxLen - 1), GenericText(MaxLen)}

LocalInit ==
    /\ \E T \in LocalTexts : buffers = [r \in Replicas |-> OperationBuffer(T, BufClient[r])]
    /\ authored \in [Replicas -> GenericOps("a", {EmptyClock}) \cup GenericOps("b", {EmptyClock})]
    /\ applied = [r \in Replicas |-> {}]
    /\ remote = <<>>
    /\ local = [r \in Replicas |-> <<>>]
    /\ OTIdle /\ VCIdle /\ MgrIdle /\ OpIdle

LocalApply(r) ==
    /\ r \notin applied[r]
    /\ LET res == apply_local_operation(buffers[r], authored[r]) IN
        /\ buffers' = [buffers EXCEPT ![r] = res.buffer]
        /\ authored' = [authored EXCEPT ![r] = res.operation]
        /\ local' = [local EXCEPT ![r] = <<[before |-> buffers[r],
                                            argument |-> authored[r],
                                            after |-> res.buffer,
                                            raised |-> res.raised,
                                            shares_clock |-> res.shares_clock]>>]
    /\ applied' = [applied EXCEPT ![r] = @ \cup {r}]
    /\ UNCHANGED <<remote, otVars, vcVars, mgrVars, opVars>>

\* the operation object of replica r's apply_local_operation call as it
\* reads once the buffer's clock is clocks: a clock that is the buffer's own
\* object shows the buffer's entries
Seen(r, operation, clocks) ==
    IF local[r] # <<>> /\ local[r][1].shares_clock
    THEN [operation EXCEPT !.vector_clock = clocks]
    ELSE operation

\* where the operation of replica r's apply_local_operation call is in the
\* history, 0 before the call
LocalIndex(r) ==
    IF local[r] = <<>> \/ local[r][1].raised THEN 0
    ELSE Len(local[r][1].before.operation_history) + 1

LocalRemote(r, o) ==
    /\ o # r /\ o \in applied[o] /\ o \notin applied[r]
    /\ LET buffer == apply_remote_operation(buffers[r], authored[o]).buffer
           history == buffer.operation_history
       IN  /\ buffers' = [buffers EXCEPT ![r] =
                    [buffer EXCEPT !.operation_history =
                        [i \in 1..Len(history) |->
                            IF i = LocalIndex(r)
                            THEN Seen(r, history[i], buffer.vector_clock)
                            ELSE history[i]]]]
           /\ authored' = [authored EXCEPT ![r] = Seen(r, @, buffer.vector_clock)]
    /\ applied' = [applied EXCEPT ![r] = @ \cup {o}]
    /\ UNCHANGED <<remote, local, otVars, vcVars, mgrVars, opVars>>

LocalNext ==
    \/ \E r \in Replicas : LocalApply(r)
    \/ \E r \in Replicas, o \in Replicas : LocalRemote(r, o)
SpecLocal == LocalInit /\ [][LocalNext]_vars

\* ========================================================== coordinator
\* Every call of the coordinator runs to its end before the next one starts,
\* and the clients have read the messages of the calls before it.
WebSockets == {"w1", "w2"}
Sessions == {"s1"}
Users == {"u1", "u2"}
\* the content strings and vector clocks text_change messages carry
MessageContents == {<<>>, <<"A">>, <<"A", "B">>}
MessageClocks == {EmptyClock, [c \in {"u1"} |-> 1]}
\* the messages clients send
TextChangeMessages ==
    UNION {{[type |-> "text_change", content |-> c, cursor_position |-> p, vector_clock |-> vc] :
                p \in {0, Len(c)}, vc \in MessageClocks} : c \in MessageContents}
OtherMessages ==
    {[type |-> "cursor_change", position |-> 1], [type |-> "ping"],
     [type |-> "get_metrics"], [type |-> "save"]}
Messages == TextChangeMessages \cup OtherMessages

Mgr ==
    [active_connections |-> active_connections,
     connection_info |-> connection_info,
     session_buffers |-> session_buffers,
     health_checks |-> health_checks,
     metrics |-> metrics,
     rate_limits |-> rate_limits,
     tasks |-> tasks,
     outbox |-> outbox,
     sessions |-> sessions,
     cleanup_tasks |-> cleanup_tasks]

\* the coordinator state once the clients have read the messages sent to them
Read(m) == [m EXCEPT !.outbox = [w \in DOMAIN @ |-> <<>>]]

SetMgr(m) ==
    /\ active_connections' = m.active_connections
    /\ connection_info' = m.connection_info
    /\ session_buffers' = m.session_buffers
    /\ health_checks' = m.health_checks
    /\ metrics' = m.metrics
    /\ rate_limits' = m.rate_limits
    /\ tasks' = m.tasks
    /\ outbox' = m.outbox
    /\ sessions' = m.sessions
    /\ cleanup_tasks' = m.cleanup_tasks

\* AdvancedConnectionManager.__init__ and DistributedSessionManager.__init__
Init ==
    /\ active_connections = EmptyDict /\ connection_info = EmptyDict
    /\ session_buffers = EmptyDict /\ health_checks = EmptyDict
    /\ metrics = [total_connections |-> 0, active_connections |-> 0, error_count |-> EmptyDict]
    /\ rate_limits = EmptyDict
    /\ tasks = <<>>
    /\ outbox = [w \in WebSockets |-> <<>>]
    /\ requests = <<>>
    /\ awaiting = EmptyDict /\ completed = <<>> /\ received = EmptyDict
    /\ sessions = EmptyDict /\ cleanup_tasks = {}
    /\ ws_state = [w \in WebSockets |-> "new"]
    /\ now = 0
    /\ OTIdle /\ VCIdle /\ BufIdle /\ OpIdle

RECURSIVE SumLen(_, _)
\* the number of entries of the queues d[k], k in keys
SumLen(d, keys) ==
    IF keys = {} THEN 0
    ELSE LET k == CHOOSE x \in keys : TRUE IN Len(d[k]) + SumLen(d, keys \ {k})

\* the number of requests recorded for the rate limit
Handled == SumLen(rate_limits, DOMAIN rate_limits)

\* websocket_endpoint up to its receive loop: connection_manager.connect
Connect(websocket, session_id, user_id) ==
    /\ ws_state[websocket] = "new"
    /\ \E failed \in SUBSET broadcast_targets(Mgr, session_id, {websocket}) :
        SetMgr(connect(Read(Mgr), websocket, session_id, user_id, failed, now))
    /\ ws_state' = [ws_state EXCEPT ![websocket] = "open"]
    /\ UNCHANGED <<requests, awaiting, completed, received, now, otVars, vcVars, bufVars, opVars>>

\* one turn of the receive loop: handle_message(websocket, message), with
\* send_text raising for the websockets in failed
Receive(websocket, message, failed) ==
    /\ ws_state[websocket] = "open"
    /\ \A s \in DOMAIN session_buffers :
        Len(session_buffers[s].operation_history) < MaxHistory
    /\ Handled < MaxMessages
    /\ SetMgr(handle_message(Read(Mgr), websocket, message, failed, now))
    /\ UNCHANGED <<requests, awaiting, completed, received, ws_state, now, otVars, vcVars, bufVars, opVars>>

ReceiveMessage(websocket) ==
    \E message \in Messages, failed \in SUBSET (WebSockets \ {websocket}) :
        Receive(websocket, message, failed)

\* the endpoint's finally clause, after the channel closed
EndpointDisconnect(websocket) ==
    /\ ws_state[websocket] = "open"
    /\ SetMgr(disconnect(Read(Mgr), websocket))
    /\ ws_state' = [ws_state EXCEPT ![websocket] = "closed"]
    /\ UNCHANGED <<requests, awaiting, completed, received, now, otVars, vcVars, bufVars, opVars>>

\* the oldest task, a user_left broadcast created by disconnect, runs
UserLeftBroadcast ==
    /\ tasks # <<>>
    /\ LET task == Head(tasks) IN
       \E failed \in SUBSET broadcast_targets(Mgr, task.session_id, {}) :
        SetMgr(broadcast_to_session([Read(Mgr) EXCEPT !.tasks = Tail(@)],
                                    task.message, task.session_id, {}, failed))
    /\ UNCHANGED <<requests, awaiting, completed, received, ws_state, now, otVars, vcVars, bufVars, opVars>>

\* a scheduled empty-session cleanup runs after its delay
SessionCleanup(session_id) ==
    /\ session_id \in cleanup_tasks
    /\ SetMgr(cleanup_task(Read(Mgr), session_id))
    /\ UNCHANGED <<requests, awaiting, completed, received, ws_state, now, otVars, vcVars, bufVars, opVars>>

\* time passes
Tick ==
    /\ now < MaxTime
    /\ now' = now + 1
    /\ UNCHANGED <<active_connections, connection_info, session_buffers, health_checks, metrics, rate_limits, tasks, outbox, requests, awaiting, completed, received, sessions, cleanup_tasks, ws_state, otVars, vcVars, bufVars, opVars>>

Next ==
    \/ \E w \in WebSockets, s \in Sessions, u \in Users : Connect(w, s, u)
    \/ \E w \in WebSockets : ReceiveMessage(w)
    \/ \E w \in WebSockets : EndpointDisconnect(w)
    \/ UserLeftBroadcast
    \/ \E s \in Sessions : SessionCleanup(s)
    \/ Tick
Spec == Init /\ [][Next]_vars

\* =========================================================== rate limit
\* Channels connect and then send text_change messages while time passes
\* beyond the rate limit's window; every handle_message call is noted in
\* requests.
RateMaxTime == window_seconds + 1
MaxCalls == max_requests + 2
RateMessages ==
    {[type |-> "text_change", content |-> c, cursor_position |-> Len(c), vector_clock |-> EmptyClock] :
        c \in {<<>>, <<"A">>}}

\* the channels connect before the first message
RateConnect(websocket, session_id, user_id) ==
    /\ requests = <<>> /\ now = 0
    /\ Connect(websocket, session_id, user_id)

\* one turn of the receive loop: handle_message(websocket, message)
RateReceive(websocket, message) ==
    /\ ws_state[websocket] = "open"
    /\ websocket \in DOMAIN connection_info
    /\ Len(requests) < MaxCalls
    /\ LET user_id == connection_info[websocket].user_id IN
        requests' = Append(requests,
            [websocket |-> websocket, user_id |-> user_id, time |-> now,
             allowed |-> _check_rate_limit(Read(Mgr), user_id, now).allowed])
    /\ SetMgr(handle_message(Read(Mgr), websocket, message, {}, now))
    /\ UNCHANGED <<awaiting, completed, received, ws_state, now, otVars, vcVars, bufVars, opVars>>

RateTick ==
    /\ now < RateMaxTime
    /\ now' = now + 1
    /\ UNCHANGED <<active_connections, connection_info, session_buffers, health_checks, metrics, rate_limits, tasks, outbox, requests, awaiting, completed, received, sessions, cleanup_tasks, ws_state, otVars, vcVars, bufVars, opVars>>

RateNext ==
    \/ \E w \in WebSockets, s \in Sessions, u \in Users : RateConnect(w, s, u)
    \/ \E w \in WebSockets, message \in RateMessages : RateReceive(w, message)
    \/ RateTick
SpecRate == Init /\ [][RateNext]_vars

\* ================================================ coordinator with tasks
\* broadcast_to_session creates one task per connection and suspends at
\* "await task" until each has finished; meanwhile the event loop runs the
\* tasks, oldest first, and the endpoints of other channels.  A channel's
\* endpoint is busy while its connect or handle_message call is suspended.
\* The clients read the messages sent to them at once.
AsyncSockets == {"w1", "w2", "w3"}
AsyncUser == [w \in AsyncSockets |-> IF w = "w2" THEN "u2" ELSE "u1"]
\* the channels that send edits, and the one that only listens and may leave
AsyncSenders == {"w1", "w2"}
AsyncListener == "w3"
\* the names of the broadcast_to_session calls that are suspended at a time
AsyncCalls == 1..(2 * Cardinality(AsyncSockets))
AsyncMessages ==
    {[type |-> "text_change", content |-> c, cursor_position |-> Len(c), vector_clock |-> EmptyClock] :
        c \in {<<"A">>, <<"A", "B">>}}

\* the coordinator after __init__
NewMgr ==
    [active_connections |-> EmptyDict,
     connection_info |-> EmptyDict,
     session_buffers |-> EmptyDict,
     health_checks |-> EmptyDict,
     metrics |-> [total_connections |-> 0, active_connections |-> 0, error_count |-> EmptyDict],
     rate_limits |-> EmptyDict,
     tasks |-> <<>>,
     outbox |-> [w \in AsyncSockets |-> <<>>],
     sessions |-> EmptyDict,
     cleanup_tasks |-> {}]

\* the coordinator after the channels have connected to the session, one
\* after the other
RECURSIVE Joined(_, _)
Joined(order, i) ==
    IF i = 0 THEN NewMgr
    ELSE Read(connect(Joined(order, i - 1), order[i], "s1", AsyncUser[order[i]], {}, 0))

\* the coordinator's variables start as the state m
SetInit(m) ==
    /\ active_connections = m.active_connections
    /\ connection_info = m.connection_info
    /\ session_buffers = m.session_buffers
    /\ health_checks = m.health_checks
    /\ metrics = m.metrics
    /\ rate_limits = m.rate_limits
    /\ tasks = m.tasks
    /\ outbox = m.outbox
    /\ sessions = m.sessions
    /\ cleanup_tasks = m.cleanup_tasks

\* the channels are connected and the event loop is idle
AsyncInit ==
    /\ SetInit(Joined(<<"w1", "w2", "w3">>, 3))
    /\ requests = <<>>
    /\ awaiting = EmptyDict /\ completed = <<>>
    /\ received = [w \in AsyncSockets |-> <<>>]
    /\ ws_state = [w \in AsyncSockets |-> "open"]
    /\ now = 0
    /\ OTIdle /\ VCIdle /\ BufIdle /\ OpIdle

\* the orders in which the set connections can be iterated
Orders(connections) ==
    {order \in [1..Cardinality(connections) -> connections] :
        \A i, j \in DOMAIN order : i # j => order[i] # order[j]}

\* asyncio.create_task with a chance of running the new task first
create_task_first(queue, task) == <<task>> \o queue

\* asyncio.create_task: the new task runs after the tasks created before it
create_task(queue, task) == Append(queue, task)

RECURSIVE create_tasks(_, _, _)
create_tasks(queue, new_tasks, i) ==
    IF i > Len(new_tasks) THEN queue
    ELSE create_tasks(create_task(queue, new_tasks[i]), new_tasks, i + 1)

\* a send task has finished, with or without an exception
Done(result) == result \in {"ok", "raised"}

\* the "await task" loop left at the first send that raised
sends_awaited_until_failure(call) ==
    \/ \A k \in DOMAIN call.results : Done(call.results[k])
    \/ \E k \in DOMAIN call.results : call.results[k] = "raised"

\* the call's "await task" loop has gone past every send task
sends_awaited(call) == \A k \in DOMAIN call.results : Done(call.results[k])

\* the task the "await task" loop stops at: the first one not finished
awaited_task(call) ==
    IF sends_awaited(call) THEN Len(call.results) + 1
    ELSE CHOOSE k \in DOMAIN call.results :
            /\ ~Done(call.results[k])
            /\ \A j \in 1..(k - 1) : Done(call.results[j])

\* a task finishing wakes the call that awaits it: the call goes on at its
\* turn in the event loop
wake(queue, call_id, call, k) ==
    IF call.pos = k THEN create_task(queue, [kind |-> "wakeup", call |-> call_id])
    ELSE queue

\* broadcast_to_session(message, session_id, exclude) called in state m, with
\* connections to send to: its tasks are created and it suspends
Suspend(m, message, session_id, exclude, owner) ==
    \E order \in Orders(broadcast_targets(m, session_id, exclude)) :
        LET call == CHOOSE n \in AsyncCalls : n \notin DOMAIN awaiting
            sends == [k \in DOMAIN order |->
                        [kind |-> "send", call |-> call, index |-> k,
                         connection |-> order[k], message |-> message]]
        IN  /\ SetMgr([m EXCEPT !.tasks = create_tasks(@, sends, 1)])
            /\ awaiting' = DictSet(awaiting, call,
                    [message |-> message, connections |-> order,
                     results |-> [k \in DOMAIN order |-> "created"],
                     pos |-> 1, owner |-> owner])

\* the first turn of the receive loop: handle_message until it returns or
\* suspends
AsyncReceive(websocket, message) ==
    /\ ws_state[websocket] = "open"
    /\ AsyncUser[websocket] \notin DOMAIN rate_limits
    /\ LET r == handle_message_begin(Read(Mgr), websocket, message, {}, now) IN
       IF r.broadcast = <<>>
            \/ broadcast_targets(r.m, connection_info[websocket].session_id, {websocket}) = {}
       THEN /\ SetMgr(r.m)
            /\ UNCHANGED <<awaiting, ws_state>>
       ELSE /\ Suspend(r.m, r.broadcast[1], connection_info[websocket].session_id,
                       {websocket}, [kind |-> "message", websocket |-> websocket])
            /\ ws_state' = [ws_state EXCEPT ![websocket] = "busy"]
    /\ UNCHANGED <<requests, completed, received, now, otVars, vcVars, bufVars, opVars>>

\* the endpoint's finally clause, after the channel closed
AsyncDisconnect(websocket) ==
    /\ ws_state[websocket] = "open"
    /\ SetMgr(disconnect(Read(Mgr), websocket))
    /\ ws_state' = [ws_state EXCEPT ![websocket] = "closed"]
    /\ UNCHANGED <<requests, awaiting, completed, received, now, otVars, vcVars, bufVars, opVars>>

\* the sends that raised so far
Failures ==
    (IF "broadcast_error" \in DOMAIN metrics.error_count
     THEN metrics.error_count["broadcast_error"] ELSE 0)
    + SumLen([c \in DOMAIN awaiting |->
                SelectSeq(awaiting[c].results, LAMBDA r : r = "raised")], DOMAIN awaiting)

\* the sends that are suspended in send_text
Pending ==
    SumLen([c \in DOMAIN awaiting |->
                SelectSeq(awaiting[c].results, LAMBDA r : r = "pending")], DOMAIN awaiting)

\* the event loop runs the oldest task, a _send_to_connection: its send_text
\* raises (as it does on a channel that was closed), or it hands the message
\* to the channel and returns or suspends
RunSendTask ==
    /\ tasks # <<>> /\ Head(tasks).kind = "send"
    /\ LET task == Head(tasks)
           known == task.call \in DOMAIN awaiting
           m0 == [Read(Mgr) EXCEPT !.tasks = Tail(@)]
       IN  \E result \in {"ok", "raised", "pending"} :
            /\ ws_state[task.connection] = "closed" => result = "raised"
            /\ (result = "raised" /\ ws_state[task.connection] # "closed")
                    => Failures < MaxFailures
            /\ result = "pending" => (known /\ Pending < MaxPending)
            /\ LET m1 == IF result = "raised" THEN m0
                         ELSE _send_to_connection(m0, task.connection, task.message)
               IN  SetMgr(IF Done(result) /\ known
                          THEN [m1 EXCEPT !.tasks =
                                    wake(@, task.call, awaiting[task.call], task.index)]
                          ELSE m1)
            /\ awaiting' = IF known
                           THEN [awaiting EXCEPT ![task.call].results[task.index] = result]
                           ELSE awaiting
            /\ received' = IF result # "raised" /\ task.message.type = "text_change"
                           THEN [received EXCEPT ![task.connection] = @ \o task.message.operations]
                           ELSE received
    /\ UNCHANGED <<requests, completed, ws_state, now, otVars, vcVars, bufVars, opVars>>

\* a send_text that was suspended returns
FinishSend(call, k) ==
    /\ call \in DOMAIN awaiting
    /\ k \in DOMAIN awaiting[call].results
    /\ awaiting[call].results[k] = "pending"
    /\ SetMgr([Read(Mgr) EXCEPT !.tasks = wake(@, call, awaiting[call], k)])
    /\ awaiting' = [awaiting EXCEPT ![call].results[k] = "ok"]
    /\ UNCHANGED <<requests, completed, received, ws_state, now, otVars, vcVars, bufVars, opVars>>

\* the event loop runs the oldest task, the user_left broadcast of a
\* disconnect: broadcast_to_session until it returns or suspends
RunBroadcastTask ==
    /\ tasks # <<>> /\ Head(tasks).kind = "broadcast"
    /\ LET task == Head(tasks)
           m == [Read(Mgr) EXCEPT !.tasks = Tail(@)]
       IN  IF broadcast_targets(m, task.session_id, {}) = {}
           THEN SetMgr(m) /\ UNCHANGED awaiting
           ELSE Suspend(m, task.message, task.session_id, {},
                        [kind |-> "task", websocket |-> "-"])
    /\ UNCHANGED <<requests, completed, received, ws_state, now, otVars, vcVars, bufVars, opVars>>

\* the event loop runs the oldest task, a suspended broadcast_to_session
\* whose awaited send has finished: it goes on in its "await task" loop and
\* stops at the next send that has not finished; past the loop it disconnects
\* the connections whose send raised and returns to its caller
Resume ==
    /\ tasks # <<>> /\ Head(tasks).kind = "wakeup"
    /\ LET call == Head(tasks).call
           frame == awaiting[call]
           m0 == [Read(Mgr) EXCEPT !.tasks = Tail(@)]
           connections_to_remove ==
                {frame.connections[k] : k \in {i \in DOMAIN frame.results : frame.results[i] = "raised"}}
           m == broadcast_cleanup(m0, connections_to_remove)
       IN  IF sends_awaited(frame)
           THEN /\ SetMgr(IF frame.owner.kind = "connect" THEN connect_return(m) ELSE m)
                /\ ws_state' = IF frame.owner.kind = "task" THEN ws_state
                               ELSE [ws_state EXCEPT ![frame.owner.websocket] = "open"]
                /\ completed' = <<frame>>
                /\ awaiting' = DictDel(awaiting, call)
           ELSE /\ SetMgr(m0)
                /\ awaiting' = [awaiting EXCEPT ![call].pos = awaited_task(frame)]
                /\ UNCHANGED <<ws_state, completed>>
    /\ UNCHANGED <<requests, received, now, otVars, vcVars, bufVars, opVars>>

AsyncNext ==
    \/ \E w \in AsyncSenders, message \in AsyncMessages : AsyncReceive(w, message)
    \/ AsyncDisconnect(AsyncListener)
    \/ RunSendTask
    \/ \E call \in AsyncCalls, k \in 1..Cardinality(AsyncSockets) : FinishSend(call, k)
    \/ RunBroadcastTask
    \/ Resume
SpecAsync == AsyncInit /\ [][AsyncNext]_vars

\* ---------------------------------------------------- connects as tasks
\* The coordinator after __init__, the channels not yet accepted.
ConnInit ==
    /\ SetInit(NewMgr)
    /\ requests = <<>>
    /\ awaiting = EmptyDict /\ completed = <<>>
    /\ received = [w \in AsyncSockets |-> <<>>]
    /\ ws_state = [w \in AsyncSockets |-> "new"]
    /\ now = 0
    /\ OTIdle /\ VCIdle /\ BufIdle /\ OpIdle

\* the endpoint calls connect: it registers the channel, joins the session
\* and sends session_joined, then it suspends in the user_joined broadcast
\* when there is a connection to send to; the counters are raised once the
\* broadcast has returned
AsyncConnect(websocket) ==
    /\ ws_state[websocket] = "new"
    /\ LET user_id == AsyncUser[websocket]
           m == connect_register(Read(Mgr), websocket, "s1", user_id, {}, now)
       IN  IF broadcast_targets(m, "s1", {websocket}) = {}
           THEN /\ SetMgr(connect_return(m))
                /\ ws_state' = [ws_state EXCEPT ![websocket] = "open"]
                /\ UNCHANGED awaiting
           ELSE /\ Suspend(m, UserJoined(user_id), "s1", {websocket},
                           [kind |-> "connect", websocket |-> websocket])
                /\ ws_state' = [ws_state EXCEPT ![websocket] = "busy"]
    /\ UNCHANGED <<requests, completed, received, now, otVars, vcVars, bufVars, opVars>>

ConnNext ==
    \/ \E w \in AsyncSockets : AsyncConnect(w)
    \/ \E w \in AsyncSockets : AsyncDisconnect(w)
    \/ RunSendTask
    \/ \E call \in AsyncCalls, k \in 1..Cardinality(AsyncSockets) : FinishSend(call, k)
    \/ RunBroadcastTask
    \/ Resume
SpecConnect == ConnInit /\ [][ConnNext]_vars

\* ========================================================= health checks
\* The coordinator with the sweeps of _health_check_loop.  A sweep runs to
\* its sleep before the next call starts.
HealthMaxTime == ping_interval + 1

\* one sweep of _health_check_loop, send_text raising for the websockets in
\* failed
HealthSweep(failed) ==
    /\ SetMgr(health_check_sweep(Read(Mgr), failed, now))
    /\ UNCHANGED <<requests, awaiting, completed, received, ws_state, now, otVars, vcVars, bufVars, opVars>>

HealthTick ==
    /\ now < HealthMaxTime
    /\ now' = now + 1
    /\ UNCHANGED <<active_connections, connection_info, session_buffers, health_checks, metrics, rate_limits, tasks, outbox, requests, awaiting, completed, received, sessions, cleanup_tasks, ws_state, otVars, vcVars, bufVars, opVars>>

HealthNext ==
    \/ \E w \in WebSockets, s \in Sessions, u \in Users : Connect(w, s, u)
    \/ \E w \in WebSockets : EndpointDisconnect(w)
    \/ UserLeftBroadcast
    \/ \E failed \in SUBSET WebSockets : HealthSweep(failed)
    \/ HealthTick
SpecHealth == Init /\ [][HealthNext]_vars

\* ------------------------------------------------- a sweep as a task
\* One sweep of _health_check_loop that suspends in the send of each ping,
\* while the endpoints connect and disconnect.  w1 and w2 connected in this
\* order and w3 connects later, so the items of health_checks are in the
\* order of SweepOrder.
SweepOrder == <<"w1", "w2", "w3">>

\* "for websocket, last_ping in self.health_checks.items()": the frame of the
\* loop at its start
sweep_frame(m, current_time) ==
    [keys |-> SelectSeq(SweepOrder, LAMBDA w : w \in DOMAIN m.health_checks),
     used |-> Cardinality(DOMAIN m.health_checks),
     pos |-> 0,
     current_time |-> current_time,
     due |-> due_for_ping(m, current_time),
     pinged |-> {},
     state |-> "iterating"]

RECURSIVE sweep_next(_, _)
\* the for loop from the item after frame.pos to the next ping it sends: the
\* dict iterator raises RuntimeError when the dict has another size than at
\* the start of the loop, and skips the items that were removed.  An item
\* added during the sweep holds a time that is not before current_time: it
\* is not due and the loop passes it.
sweep_next(frame, m) ==
    IF Cardinality(DOMAIN m.health_checks) # frame.used
    THEN [frame EXCEPT !.state = "raised"]
    ELSE
        LET later == {q \in (frame.pos + 1)..Len(frame.keys) :
                            frame.keys[q] \in DOMAIN m.health_checks}
        IN  IF later = {} THEN [frame EXCEPT !.state = "done"]
            ELSE LET q == CHOOSE i \in later : \A j \in later : i <= j
                     websocket == frame.keys[q]
                 IN  IF frame.current_time - m.health_checks[websocket] > ping_interval
                     THEN [frame EXCEPT !.pos = q, !.state = "sending"]
                     ELSE sweep_next([frame EXCEPT !.pos = q], m)

\* the sweep goes on as frame: it is suspended in a ping, or it has left the
\* loop (no send raised, so stale_connections is empty) or the loop raised,
\* and the task sleeps
SweepContinue(frame) ==
    IF frame.state = "sending"
    THEN awaiting' = DictSet(awaiting, "sweep", frame) /\ UNCHANGED completed
    ELSE awaiting' = DictDel(awaiting, "sweep") /\ completed' = <<frame>>

SweepInit ==
    /\ SetInit(Joined(<<"w1", "w2">>, 2))
    /\ requests = <<>>
    /\ awaiting = EmptyDict /\ completed = <<>>
    /\ received = [w \in AsyncSockets |-> <<>>]
    /\ ws_state = [w \in AsyncSockets |-> IF w = "w3" THEN "new" ELSE "open"]
    /\ now = 0
    /\ OTIdle /\ VCIdle /\ BufIdle /\ OpIdle

\* the sweep starts: current_time is read and the loop runs to its first ping
SweepStart ==
    /\ "sweep" \notin DOMAIN awaiting /\ completed = <<>>
    /\ SetMgr(Read(Mgr))
    /\ SweepContinue(sweep_next(sweep_frame(Mgr, now), Mgr))
    /\ UNCHANGED <<requests, received, ws_state, now, otVars, vcVars, bufVars, opVars>>

\* the send of the ping returns, send_text having raised or not:
\* health_checks[websocket] is set and the loop goes on
SweepResume(raised) ==
    /\ "sweep" \in DOMAIN awaiting
    /\ LET frame == awaiting["sweep"]
           websocket == frame.keys[frame.pos]
           m1 == send_personal_message(Read(Mgr), Ping, websocket,
                                       IF raised THEN {websocket} ELSE {})
           m2 == [m1 EXCEPT !.health_checks = DictSet(@, websocket, frame.current_time)]
       IN  /\ SetMgr(m2)
           /\ SweepContinue(sweep_next([frame EXCEPT !.pinged = @ \cup {websocket}], m2))
    /\ UNCHANGED <<requests, received, ws_state, now, otVars, vcVars, bufVars, opVars>>

SweepNext ==
    \/ \E w \in AsyncSockets : Connect(w, "s1", AsyncUser[w])
    \/ \E w \in AsyncSockets : EndpointDisconnect(w)
    \/ UserLeftBroadcast
    \/ SweepStart
    \/ \E raised \in BOOLEAN : SweepResume(raised)
    \/ HealthTick
SpecSweep == SweepInit /\ [][SweepNext]_vars

\* ==================================================== Operation objects
\* apply_operations: the Operation it builds for op, with the offset that
\* the operations sorted before op have left
adjusted_op(op, position_offset) ==
    Operation(op.type, op.position + position_offset, op.text, op.length, op.client_id,
              op.operation_id, op.vector_clock, op.timestamp, op.checksum)

\* apply_operations: what an applied operation adds to position_offset
offset_after(op) ==
    IF op.type = INSERT THEN Len(op.text)
    ELSE IF op.type = DELETE THEN 0 - op.length
    ELSE 0

\* apply_operations: its sort key (timestamp, type.value) puts first before
\* second, or leaves them in the order of the list
sorted_before(first, second) ==
    LET rank(type) == IF type = DELETE THEN 1 ELSE IF type = INSERT THEN 2 ELSE 3 IN
    \/ first.timestamp < second.timestamp
    \/ first.timestamp = second.timestamp /\ rank(first.type) <= rank(second.type)

RECURSIVE insert_sorted(_, _, _)
\* sorted: op is put behind the operations of sorted_ops[i..] that do not
\* sort after it (the sort is stable)
insert_sorted(sorted_ops, op, i) ==
    IF i > Len(sorted_ops) THEN Append(sorted_ops, op)
    ELSE IF sorted_before(sorted_ops[i], op) THEN insert_sorted(sorted_ops, op, i + 1)
    ELSE SubSeq(sorted_ops, 1, i - 1) \o <<op>> \o SubSeq(sorted_ops, i, Len(sorted_ops))

RECURSIVE sorted(_, _, _)
\* sorted(operations, key=lambda op: (op.timestamp, op.type.value)), from the
\* i-th operation, with the earlier ones sorted in sorted_ops
sorted(operations, i, sorted_ops) ==
    IF i > Len(operations) THEN sorted_ops
    ELSE sorted(operations, i + 1, insert_sorted(sorted_ops, operations[i], 1))

RECURSIVE apply_sorted(_, _, _, _)
\* apply_operations: the for loop from the i-th sorted operation; it gives
\* the text, whether apply_operation raised, the operations applied in their
\* order and the operation named by the ValueError
apply_sorted(result, sorted_ops, i, position_offset) ==
    IF i > Len(sorted_ops)
    THEN [text |-> result, raised |-> FALSE, applied |-> sorted_ops, failed |-> <<>>]
    ELSE LET op == sorted_ops[i]
             adjusted == adjusted_op(op, position_offset)
         IN  IF apply_operation_raises(adjusted)
             THEN [text |-> result, raised |-> TRUE,
                   applied |-> SubSeq(sorted_ops, 1, i - 1), failed |-> <<op>>]
             ELSE apply_sorted(apply_operation(result, adjusted), sorted_ops, i + 1,
                               position_offset + offset_after(op))

\* AdvancedTextOT.apply_operations
apply_operations(T, operations) ==
    apply_sorted(T, sorted(operations, 1, <<>>), 1, 0)

\* The Operation objects the code constructs: those of the factory
\* functions, as created and as stamped with a vector clock, and those
\* apply_operations builds for the second operation of a batch of two
WireOps ==
    GenericOps("a", OpClocks)
        \cup {adjusted_op(batch[2], offset_after(batch[1])) :
                batch \in {q \in GenericOps("a", {EmptyClock}) \X GenericOps("b", {EmptyClock}) :
                            sorted_before(q[1], q[2])}}

WireInit ==
    /\ wire_op \in WireOps
    /\ wire_back = <<>>
    /\ old_text = <<>> /\ new_text = <<>> /\ edit_ops = <<>>
    /\ BatchIdle /\ StoreIdle /\ UnitIdle /\ OTIdle /\ VCIdle /\ BufIdle /\ MgrIdle

\* the operation goes through to_dict and from_dict
WireRoundTrip ==
    /\ wire_back = <<>>
    /\ wire_back' = <<from_dict(to_dict(wire_op))>>
    /\ UNCHANGED <<wire_op, old_text, new_text, edit_ops, batchVars, storeVars, unitVars, otVars, vcVars, bufVars, mgrVars>>

WireNext == WireRoundTrip
SpecWire == WireInit /\ [][WireNext]_vars

\* ======================================================= session store
\* DistributedSessionManager on its own: its methods run one at a time
\* against the Redis keys session:<id>, the local cache and the clock.  A
\* Redis call either does what it says or raises; failed names the kinds of
\* Redis call that raise during one method call.  What hset was given is
\* what hgetall gives back.  A store state d is the record of redis,
\* _local_cache, _cache_timestamps, _background_tasks and the time.
StoreSessions == {"s1"}
StoreUsers == {"u1", "u2"}
StoreContents == {<<"A">>}
\* the seconds a local cache entry is valid, in ticks
cache_ttl == 1
\* the delay of the empty-session cleanup, in ticks
cleanup_delay == 3
MaxVersion == 2
\* the cleanup tasks there are at a time
MaxCleanups == 1
StoreMaxTime == cleanup_delay + 1

\* SessionState.to_dict
SessionState_to_dict(state) ==
    [session_id |-> state.session_id, content |-> state.content, users |-> state.users,
     created_at |-> state.created_at, version |-> state.version]

\* SessionState.from_dict
SessionState_from_dict(data) ==
    [session_id |-> data.session_id, content |-> data.content, users |-> data.users,
     created_at |-> data.created_at, version |-> data.version]

_is_cache_valid(d, session_id) ==
    /\ session_id \in DOMAIN d._local_cache
    /\ session_id \in DOMAIN d._cache_timestamps
    /\ d.now - d._cache_timestamps[session_id] < cache_ttl

\* the cache entry and its timestamp are set
Cached(d, session_state) ==
    [d EXCEPT !._local_cache = DictSet(@, session_state.session_id, session_state),
              !._cache_timestamps = DictSet(@, session_state.session_id, d.now)]

\* the object in the cache is changed in place: every SessionState that
\* get_session returns is the object the cache holds
Mutated(d, session_state) ==
    [d EXCEPT !._local_cache = DictSet(@, session_state.session_id, session_state)]

\* get_session of the store: the state afterwards and <<>> for None or
\* <<state>> for the SessionState returned
store_get_session(d, session_id, failed) ==
    IF _is_cache_valid(d, session_id)
    THEN [d |-> d, session |-> <<d._local_cache[session_id]>>]
    ELSE IF "hgetall" \in failed
    THEN [d |-> d,
          session |-> IF session_id \in DOMAIN d._local_cache
                      THEN <<d._local_cache[session_id]>> ELSE <<>>]
    ELSE IF session_id \notin DOMAIN d.redis THEN [d |-> d, session |-> <<>>]
    ELSE LET session_state == SessionState_from_dict(d.redis[session_id])
         IN  [d |-> Cached(d, session_state), session |-> <<session_state>>]

_session_exists(d, session_id, failed) ==
    IF "exists" \in failed THEN FALSE ELSE session_id \in DOMAIN d.redis

\* _store_session: the state afterwards and the value returned
_store_session(d, session_state, failed) ==
    IF "store" \in failed THEN [d |-> d, success |-> FALSE]
    ELSE [d |-> [d EXCEPT !.redis = DictSet(@, session_state.session_id,
                                             SessionState_to_dict(session_state))],
          success |-> TRUE]

_delete_session(d, session_id, failed) ==
    IF "delete" \in failed THEN d
    ELSE [d EXCEPT !.redis = DictDel(@, session_id),
                   !._local_cache = DictDel(@, session_id),
                   !._cache_timestamps = DictDel(@, session_id)]

\* create_session of the store
store_create_session(d, session_id, failed) ==
    IF _session_exists(d, session_id, failed) THEN d
    ELSE LET session_state == [session_id |-> session_id, content |-> WelcomeContent,
                               users |-> {}, created_at |-> d.now, version |-> 0]
         IN  Cached(_store_session(d, session_state, failed).d, session_state)

\* join_session of the store
store_join_session(d, session_id, user_id, failed) ==
    LET first == store_get_session(d, session_id, failed)
        got == IF first.session = <<>>
               THEN store_get_session(store_create_session(first.d, session_id, failed),
                                      session_id, failed)
               ELSE first
    IN  IF got.session = <<>> THEN got.d
        ELSE LET session_state == [got.session[1] EXCEPT !.users = @ \cup {user_id}]
             IN  Cached(_store_session(Mutated(got.d, session_state), session_state, failed).d,
                        session_state)

\* _schedule_session_cleanup: the task created
_schedule_session_cleanup(d, session_id, delay) ==
    [d EXCEPT !._background_tasks =
        @ \cup {[session_id |-> session_id, due |-> d.now + delay, joined |-> FALSE]}]

\* leave_session of the store
store_leave_session(d, session_id, user_id, failed) ==
    LET got == store_get_session(d, session_id, failed) IN
    IF got.session = <<>> THEN got.d
    ELSE LET session_state == [got.session[1] EXCEPT !.users = @ \ {user_id}]
             d1 == Mutated(got.d, session_state)
         IN  IF session_state.users # {}
             THEN Cached(_store_session(d1, session_state, failed).d, session_state)
             ELSE _schedule_session_cleanup(d1, session_id, cleanup_delay)

\* update_session_content of the store
store_update_session_content(d, session_id, content, failed) ==
    LET got == store_get_session(d, session_id, failed) IN
    IF got.session = <<>> THEN got.d
    ELSE LET session_state == [got.session[1] EXCEPT !.content = content,
                                                     !.version = @ + 1]
             stored == _store_session(Mutated(got.d, session_state), session_state, failed)
         IN  IF stored.success THEN Cached(stored.d, session_state) ELSE stored.d

\* cleanup_task of _schedule_session_cleanup after its sleep
store_cleanup_task(d, session_id, failed) ==
    LET got == store_get_session(d, session_id, failed) IN
    IF got.session # <<>> /\ got.session[1].users = {}
    THEN _delete_session(got.d, session_id, failed)
    ELSE got.d

Store ==
    [redis |-> redis, _local_cache |-> _local_cache,
     _cache_timestamps |-> _cache_timestamps, _background_tasks |-> _background_tasks,
     now |-> store_time]

SetStore(d) ==
    /\ redis' = d.redis
    /\ _local_cache' = d._local_cache
    /\ _cache_timestamps' = d._cache_timestamps
    /\ _background_tasks' = d._background_tasks

\* the versions of a session after get_session gave session: the last two,
\* none once it gave None
Versions(session_id, session) ==
    IF session = <<>> THEN [versions EXCEPT ![session_id] = <<>>]
    ELSE [versions EXCEPT ![session_id] =
            IF @ = <<>> THEN <<session[1].version>>
            ELSE <<@[Len(@)], session[1].version>>]

StoreInit ==
    /\ redis = EmptyDict /\ _local_cache = EmptyDict /\ _cache_timestamps = EmptyDict
    /\ _background_tasks = {}
    /\ store_time = 0
    /\ versions = [s \in StoreSessions |-> <<>>]
    /\ wire_op = <<>> /\ wire_back = <<>>
    /\ old_text = <<>> /\ new_text = <<>> /\ edit_ops = <<>>
    /\ BatchIdle /\ UnitIdle /\ OTIdle /\ VCIdle /\ BufIdle /\ MgrIdle

StoreUnchanged == UNCHANGED <<wire_op, wire_back, old_text, new_text, edit_ops, batchVars, unitVars, otVars, vcVars, bufVars, mgrVars>>

StoreCreate(session_id, failed) ==
    /\ SetStore(store_create_session(Store, session_id, failed))
    /\ UNCHANGED <<store_time, versions>>
    /\ StoreUnchanged

StoreGet(session_id, failed) ==
    /\ LET got == store_get_session(Store, session_id, failed) IN
        /\ SetStore(got.d)
        /\ versions' = Versions(session_id, got.session)
    /\ UNCHANGED store_time
    /\ StoreUnchanged

StoreJoin(session_id, user_id, failed) ==
    /\ LET d == store_join_session(Store, session_id, user_id, failed) IN
        SetStore([d EXCEPT !._background_tasks =
                    {IF task.session_id = session_id THEN [task EXCEPT !.joined = TRUE]
                     ELSE task : task \in @}])
    /\ UNCHANGED <<store_time, versions>>
    /\ StoreUnchanged

StoreLeave(session_id, user_id, failed) ==
    /\ Cardinality(_background_tasks) < MaxCleanups
    /\ SetStore(store_leave_session(Store, session_id, user_id, failed))
    /\ UNCHANGED <<store_time, versions>>
    /\ StoreUnchanged

StoreUpdate(session_id, content, failed) ==
    /\ \A s \in DOMAIN redis : redis[s].version < MaxVersion
    /\ \A s \in DOMAIN _local_cache : _local_cache[s].version < MaxVersion
    /\ SetStore(store_update_session_content(Store, session_id, content, failed))
    /\ UNCHANGED <<store_time, versions>>
    /\ StoreUnchanged

\* a cleanup task runs once its sleep is over
StoreCleanup(task, failed) ==
    /\ task \in _background_tasks
    /\ store_time >= task.due
    /\ LET d == store_cleanup_task(Store, task.session_id, failed) IN
        /\ SetStore([d EXCEPT !._background_tasks = @ \ {task}])
        /\ versions' = IF task.session_id \in DOMAIN d.redis THEN versions
                       ELSE [versions EXCEPT ![task.session_id] = <<>>]
    /\ UNCHANGED store_time
    /\ StoreUnchanged

StoreTick(limit) ==
    /\ store_time < limit
    /\ store_time' = store_time + 1
    /\ UNCHANGED <<redis, _local_cache, _cache_timestamps, _background_tasks, versions>>
    /\ StoreUnchanged

StoreTasks == {[session_id |-> s, due |-> t, joined |-> j] : s \in StoreSessions, t \in 0..(StoreMaxTime + cleanup_delay), j \in BOOLEAN}

\* the store with Redis calls that may raise, while no user leaves
StoreNext ==
    \/ \E s \in StoreSessions, failed \in SUBSET {"exists", "store"} : StoreCreate(s, failed)
    \/ \E s \in StoreSessions, failed \in SUBSET {"hgetall"} : StoreGet(s, failed)
    \/ \E s \in StoreSessions, u \in StoreUsers, failed \in SUBSET {"hgetall", "exists", "store"} : StoreJoin(s, u, failed)
    \/ \E s \in StoreSessions, c \in StoreContents, failed \in SUBSET {"hgetall", "store"} : StoreUpdate(s, c, failed)
    \/ StoreTick(cache_ttl + 1)
SpecStore == StoreInit /\ [][StoreNext]_vars

\* the store with Redis calls that never raise
StoreUpNext ==
    \/ \E s \in StoreSessions : StoreCreate(s, {})
    \/ \E s \in StoreSessions : StoreGet(s, {})
    \/ \E s \in StoreSessions, u \in StoreUsers : StoreJoin(s, u, {})
    \/ \E s \in StoreSessions, u \in StoreUsers : StoreLeave(s, u, {})
    \/ \E s \in StoreSessions, c \in StoreContents : StoreUpdate(s, c, {})
    \/ \E task \in StoreTasks : StoreCleanup(task, {})
    \/ StoreTick(StoreMaxTime)
SpecStoreUp == StoreInit /\ [][StoreUpNext]_vars

\* ======================================================= one operation
\* An Operation is constructed from arguments of every kind, in and out of
\* range, and applied to a text with apply_operation.
UnitTexts == {<<>>, <<"x">>, <<"y", "y">>}
UnitArgs ==
    [type : {INSERT, DELETE, RETAIN}, position : (0 - 1)..(MaxPos + 1),
     text : UnitTexts, length : (0 - 1)..MaxDelLen]

UnitInit ==
    /\ unit_args \in UnitArgs
    /\ unit_text \in GenericTexts
    /\ unit_op = <<>> /\ unit_result = <<>>
    /\ wire_op = <<>> /\ wire_back = <<>>
    /\ old_text = <<>> /\ new_text = <<>> /\ edit_ops = <<>>
    /\ BatchIdle /\ StoreIdle /\ OTIdle /\ VCIdle /\ BufIdle /\ MgrIdle

UnitUnchanged == UNCHANGED <<wire_op, wire_back, old_text, new_text, edit_ops, batchVars, storeVars, otVars, vcVars, bufVars, mgrVars>>

\* Operation(type=..., position=..., text=..., length=...)
UnitConstruct ==
    /\ unit_op = <<>>
    /\ unit_op' = <<[raised |-> ~PostInitAccepts(unit_args.type, unit_args.text, unit_args.length),
                     op |-> Operation(unit_args.type, unit_args.position, unit_args.text,
                                      unit_args.length, "a", <<>>, EmptyClock, 0, <<>>)]>>
    /\ UNCHANGED <<unit_args, unit_text, unit_result>>
    /\ UnitUnchanged

\* AdvancedTextOT.apply_operation(text, operation)
UnitApply ==
    /\ unit_op # <<>> /\ ~unit_op[1].raised
    /\ unit_result = <<>>
    /\ unit_result' = <<[raised |-> apply_operation_raises(unit_op[1].op),
                         text |-> apply_operation(unit_text, unit_op[1].op)]>>
    /\ UNCHANGED <<unit_args, unit_op, unit_text>>
    /\ UnitUnchanged

UnitNext == UnitConstruct \/ UnitApply
SpecUnit == UnitInit /\ [][UnitNext]_vars

\* ============================================================== batches
\* the operations of a batch: made by the factory functions or the
\* constructor at one of two times
BatchTimes == {1, 2}
BatchOps ==
    {create_insert_operation(p, <<"x">>, "a", t) : p \in 0..MaxPos, t \in BatchTimes}
        \cup {create_delete_operation(p, n, "a", t) :
                p \in 0..MaxPos, n \in 1..MaxDelLen, t \in BatchTimes}
        \cup {Operation(RETAIN, 0, <<>>, 0, "a", <<>>, EmptyClock, t, <<>>) : t \in BatchTimes}

BatchInit ==
    /\ batch_text \in GenericTexts
    /\ batch_ops \in UNION {[1..n -> BatchOps] : n \in 1..2}
    /\ batch_result = <<>>
    /\ wire_op = <<>> /\ wire_back = <<>>
    /\ old_text = <<>> /\ new_text = <<>> /\ edit_ops = <<>>
    /\ StoreIdle /\ UnitIdle /\ OTIdle /\ VCIdle /\ BufIdle /\ MgrIdle

BatchApply ==
    /\ batch_result = <<>>
    /\ batch_result' = <<apply_operations(batch_text, batch_ops)>>
    /\ UNCHANGED <<batch_text, batch_ops, wire_op, wire_back, old_text, new_text, edit_ops, storeVars, unitVars, otVars, vcVars, bufVars, mgrVars>>

BatchNext == BatchApply
SpecBatch == BatchInit /\ [][BatchNext]_vars

\* ================================================================ diffs
\* the texts over two characters
DiffTexts == UNION {[1..n -> {"A", "B"}] : n \in 0..MaxLen}

DiffInit ==
    /\ old_text \in DiffTexts /\ new_text \in DiffTexts
    /\ edit_ops = <<>>
    /\ wire_op = <<>> /\ wire_back = <<>>
    /\ BatchIdle /\ StoreIdle /\ UnitIdle /\ OTIdle /\ VCIdle /\ BufIdle /\ MgrIdle

DiffParse ==
    /\ edit_ops = <<>>
    /\ edit_ops' = <<parse_edit_to_operations(old_text, new_text, "a", 1)>>
    /\ UNCHANGED <<wire_op, wire_back, old_text, new_text, batchVars, storeVars, unitVars, otVars, vcVars, bufVars, mgrVars>>

DiffNext == DiffParse
SpecDiff == DiffInit /\ [][DiffNext]_vars

\* ================================================================ claims
IsEdit(op) == op.type \in {INSERT, DELETE}
\* the position and the range of op lie inside the text T
InsideText(op, T) ==
    /\ 0 <= op.position
    /\ op.position + (IF op.type = DELETE THEN op.length ELSE 0) <= Len(T)
IsScenario(s) == text = s[1] /\ op1 = s[2] /\ op2 = s[3]
Transformed == ot_pc \in {"transformed", "own", "done"}

\* C1 (TP1): for every text T and operations a, b (Insert or Delete, inside
\* T, different client_ids), with (a', b') = transform_pair(a, b),
\* apply(apply(T, a), b') = apply(apply(T, b), a').
C1_TP1 ==
    (/\ ot_pc = "done"
     /\ IsEdit(op1) /\ IsEdit(op2)
     /\ InsideText(op1, text) /\ InsideText(op2, text)
     /\ op1.client_id # op2.client_id)
    => replica1 = replica2

\* C2 (convergence): two buffers that start from the same content and have
\* each applied their own operation locally and the other's remotely hold
\* the same content, for any pair of operations and delivery order.
C2_Convergence ==
    (\A r \in Replicas : applied[r] = Replicas)
    => buffers[1].content = buffers[2].content

\* C3 (scenario S1): from "ABC", X's Insert(0,"X") and Y's Insert(3,"Y"),
\* own operation first and the transformed other one second, leave both
\* replicas with "XABCY".
C3_S1 ==
    (IsScenario(S1) /\ ot_pc = "done")
    => /\ replica1 = <<"X", "A", "B", "C", "Y">>
       /\ replica2 = <<"X", "A", "B", "C", "Y">>

\* C4 (scenario S2): from "", Insert(0,"A") of client a and Insert(0,"B") of
\* client b: the transform keeps a's insert at 0 and moves b's to 1, and
\* both replicas end with "AB".
C4_S2 ==
    IsScenario(S2) =>
        /\ Transformed => (pair[1].position = 0 /\ pair[2].position = 1)
        /\ ot_pc = "done" => (replica1 = <<"A", "B">> /\ replica2 = <<"A", "B">>)

\* C5 (scenario S4): from "HELLO", X's Insert(2,"xx") and Y's Delete [1,4):
\* the transform relocates the insert to 1 and makes the delete [3,6), and
\* both replicas end with "HxxO".
C5_S4 ==
    IsScenario(S4) =>
        /\ Transformed =>
            /\ pair[1].type = INSERT /\ pair[1].position = 1
            /\ pair[2].type = DELETE /\ pair[2].position = 3 /\ pair[2].length = 3
        /\ ot_pc = "done" =>
            /\ replica1 = <<"H", "x", "x", "O">>
            /\ replica2 = <<"H", "x", "x", "O">>

DeleteOverlap(a, b) ==
    Max(0, Min(a.position + a.length, b.position + b.length) - Max(a.position, b.position))
\* what the claim says the transform makes of delete own against delete other
CollapsedDelete(own, other, got) ==
    /\ got.position = Min(own.position, other.position)
    /\ IF own.length - DeleteOverlap(own, other) <= 0
       THEN got.type = RETAIN
       ELSE got.type = DELETE /\ got.length = own.length - DeleteOverlap(own, other)

\* C6 (scenario S3 generalised): two Deletes of different clients with
\* overlapping ranges are each given position min(a0, b0) and their own
\* length minus the overlap (Retain when that is <= 0), and own delete then
\* transformed other delete gives the same text on both replicas; on
\* "HELLO" with [0,3) and [2,5) both become length 2 at 0 and the text "".
C6_OverlappingDeletes ==
    (/\ op1.type = DELETE /\ op2.type = DELETE
     /\ op1.client_id # op2.client_id
     /\ DeleteOverlap(op1, op2) > 0)
    => /\ Transformed =>
            /\ CollapsedDelete(op1, op2, pair[1])
            /\ CollapsedDelete(op2, op1, pair[2])
       /\ ot_pc = "done" => replica1 = replica2
       /\ (IsScenario(S3) /\ Transformed) =>
            /\ pair[1].type = DELETE /\ pair[1].position = 0 /\ pair[1].length = 2
            /\ pair[2].type = DELETE /\ pair[2].position = 0 /\ pair[2].length = 2
       /\ (IsScenario(S3) /\ ot_pc = "done") => (replica1 = <<>> /\ replica2 = <<>>)

\* C6 witness: scenario S3 has run to the end on both replicas
C6_Witness ==
    /\ IsScenario(S3) /\ ot_pc = "done"
    /\ pair[1].length = 2 /\ pair[2].length = 2
    /\ replica1 = <<>> /\ replica2 = <<>>

\* C7 (order independence): transform_pair(b, a) is the pair that
\* transform_pair(a, b) returns, swapped, for all Insert/Delete/Retain a, b.
C7_ArgumentOrder ==
    Transformed => rev_pair = <<pair[2], pair[1]>>

\* C7 witness: an insert strictly inside a delete of another client has been
\* transformed, so both operations changed
C7_Witness ==
    /\ ot_pc = "transformed"
    /\ op1.type = DELETE /\ op2.type = INSERT
    /\ pair[1] # op1 /\ pair[2] # op2
    /\ rev_pair = <<pair[2], pair[1]>>

\* the standard partial order on clocks, absent entries counting as 0
ClockLeq(x, y) ==
    \A c \in DOMAIN x \cup DOMAIN y : ClockGet(x, c) <= ClockGet(y, c)

\* C8 (comparison): a.cmp(b) is Before exactly when every component of a is
\* <= that of b and one is strictly less, After in the mirrored case, Equal
\* when all components are equal, Concurrent otherwise.
C8_CompareOrder ==
    vc_pc = "compared" =>
        vc_result =
            IF ClockLeq(vc_self, vc_other) /\ ClockLeq(vc_other, vc_self) THEN "equal"
            ELSE IF ClockLeq(vc_self, vc_other) THEN "before"
            ELSE IF ClockLeq(vc_other, vc_self) THEN "after"
            ELSE "concurrent"

\* C9 (clock monotonicity): after vc.increment(c), comparing vc with the
\* copy taken before the increment yields After.
C9_IncrementIsAfter ==
    vc_pc = "monotone" => vc_result = "after"

IsPrefix(h1, h2) == Len(h1) <= Len(h2) /\ SubSeq(h2, 1, Len(h1)) = h1

PassedIn(log, user_id, lo, hi) ==
    {i \in DOMAIN log :
        /\ log[i].user_id = user_id /\ log[i].allowed
        /\ lo <= log[i].time /\ log[i].time <= hi}

\* C12 (rate limit): for any user, among the handle calls arriving within
\* any window of window_seconds at most max_requests pass the rate-limit
\* check; each further call in such a window is answered with exactly one
\* error message, is not applied to the buffer or the store, is not
\* broadcast and adds nothing to the history.
C12_RateLimit ==
    [][/\ \A u \in Users, a \in 0..RateMaxTime :
            Cardinality(PassedIn(requests', u, a, a + window_seconds)) <= max_requests
       /\ \A w \in WebSockets :
            (/\ Len(requests') = Len(requests) + 1
             /\ requests'[Len(requests')].websocket = w
             /\ Cardinality(PassedIn(requests, connection_info[w].user_id,
                                     now - window_seconds, now)) >= max_requests)
            => /\ ~requests'[Len(requests')].allowed
               /\ outbox' = [x \in WebSockets |->
                                IF x = w THEN <<ErrorReply("Rate limit exceeded")>>
                                ELSE <<>>]
               /\ session_buffers' = session_buffers
               /\ sessions' = sessions]_vars

\* C12 witness: a user's call was turned down in a full window and a later
\* call of the same user passed after the window had moved on
C12_Witness ==
    \E i \in DOMAIN requests, j \in DOMAIN requests :
        /\ i < j
        /\ requests[i].user_id = requests[j].user_id
        /\ ~requests[i].allowed /\ requests[j].allowed
        /\ Cardinality(PassedIn(requests, requests[i].user_id,
                                requests[i].time - window_seconds, requests[i].time))
            = max_requests

\* the calls of broadcast_to_session that return in the step
Returned == DOMAIN awaiting \ DOMAIN awaiting'

\* C13: broadcast isolation.  A send of a broadcast that does not raise hands
\* the message to its channel whatever the other sends of the broadcast did;
\* a broadcast returns only when each of its sends, to every channel that was
\* in the session when it started, has finished, having raised itself or
\* handed the message over; and a channel is taken out of the registry by a
\* broadcast only in the step in which that broadcast returns, all its sends
\* awaited.
C13_BroadcastIsolation ==
    [][/\ \A call \in DOMAIN awaiting \cap DOMAIN awaiting' :
            \A k \in DOMAIN awaiting[call].results :
                (/\ awaiting[call].results[k] = "created"
                 /\ awaiting'[call].results[k] \in {"ok", "pending"})
                    => outbox'[awaiting[call].connections[k]] = <<awaiting[call].message>>
       /\ \A call \in Returned :
            \A k \in DOMAIN awaiting[call].results : Done(awaiting[call].results[k])
       /\ \A call \in DOMAIN awaiting' \ DOMAIN awaiting :
            LET new == awaiting'[call] IN
            new.owner.kind = "message" =>
                /\ {new.connections[k] : k \in DOMAIN new.connections}
                        = active_connections["s1"] \ {new.owner.websocket}
                /\ \A k \in DOMAIN new.results : new.results[k] = "created"
       /\ \A c \in DOMAIN connection_info \ DOMAIN connection_info' :
            ws_state'[c] # "closed" =>
                \E call \in Returned :
                    \E k \in DOMAIN awaiting[call].results :
                        /\ awaiting[call].connections[k] = c
                        /\ awaiting[call].results[k] = "raised"]_vars

\* a broadcast has returned in which the send to the first channel raised and
\* the send to the second one handed the message over; the first channel has
\* been disconnected, the second one has not
C13_Witness ==
    /\ completed # <<>>
    /\ LET call == completed[1] IN
        /\ Len(call.connections) = 2
        /\ call.message.type = "text_change"
        /\ call.results = <<"raised", "ok">>
        /\ call.connections[1] \notin DOMAIN connection_info
        /\ call.connections[2] \in DOMAIN connection_info
        /\ received[call.connections[2]] # <<>>
        /\ received[call.connections[1]] = <<>>

\* the places of the operation a peer received in the session's history
HistoryIndex(history, data) ==
    {a \in DOMAIN history : to_dict(history[a]) = data}

\* C14: every operation a peer has received in a text_change broadcast is in
\* the session's buffer history, and of two operations a peer received one
\* after the other the first stands before the second in the history.
C14_PeerOrder ==
    \A w \in DOMAIN received :
        LET history == session_buffers["s1"].operation_history
            ops == received[w]
        IN  /\ \A i \in DOMAIN ops : HistoryIndex(history, ops[i]) # {}
            /\ \A i, j \in DOMAIN ops :
                i < j => \E a \in HistoryIndex(history, ops[i]),
                            b \in HistoryIndex(history, ops[j]) : a < b

\* the listener has received the operations of both senders, whose
\* broadcasts were suspended at the same time
C14_Witness ==
    /\ Len(received[AsyncListener]) >= 2
    /\ \E i, j \in DOMAIN received[AsyncListener] :
        received[AsyncListener][i].operation_id[1] # received[AsyncListener][j].operation_id[1]
    /\ Cardinality(DOMAIN awaiting) >= 2
    /\ \E c, d \in DOMAIN awaiting :
        /\ awaiting[c].owner.kind = "message" /\ awaiting[d].owner.kind = "message"
        /\ awaiting[c].owner.websocket # awaiting[d].owner.websocket

\* C15: apply_remote_operation of an operation whose checksum does not match
\* its type, position, text and length raises and leaves the buffer (content,
\* history, pending operations, vector clock, state_hash, counters) as it was.
C15_TamperedRefused ==
    [][\A r \in Replicas :
        (/\ remote' # <<>>
         /\ remote' # remote
         /\ remote'[1].replica = r
         /\ remote'[1].operation.checksum #
                _generate_checksum(remote'[1].operation.type, remote'[1].operation.position,
                                   remote'[1].operation.text, remote'[1].operation.length))
            => /\ remote'[1].raised
               /\ buffers'[r] = buffers[r]]_vars

\* a buffer with an operation in its history has refused a tampered operation
\* that carries a vector clock entry the buffer does not have
C15_Witness ==
    /\ remote # <<>>
    /\ remote[1].raised
    /\ ~verify_integrity(remote[1].operation)
    /\ buffers[remote[1].replica].operation_history # <<>>
    /\ \E c \in DOMAIN remote[1].operation.vector_clock :
            c \notin DOMAIN buffers[remote[1].replica].vector_clock

\* the operation that from_dict(to_dict(op)) gave has op's fields
SameFields(op, back) ==
    /\ back.type = op.type /\ back.position = op.position
    /\ back.text = op.text /\ back.length = op.length
    /\ back.client_id = op.client_id /\ back.operation_id = op.operation_id
    /\ back.vector_clock = op.vector_clock

\* C16: every Operation object passes verify_integrity once constructed, and
\* the one from_dict makes of its to_dict passes it too and has the same
\* type, position, text, length, client_id, operation_id and vector clock.
C16_ChecksumIdempotence ==
    wire_op # <<>> =>
        /\ verify_integrity(wire_op)
        /\ wire_back # <<>> =>
            /\ verify_integrity(wire_back[1])
            /\ SameFields(wire_op, wire_back[1])

RECURSIVE apply_in_order(_, _, _)
\* the operations applied one after the other, from the i-th one
apply_in_order(T, ops, i) ==
    IF i > Len(ops) THEN T
    ELSE apply_in_order(apply_operation(T, ops[i]), ops, i + 1)

\* the length of the longest common prefix
CommonPrefix(a, b) ==
    CHOOSE n \in 0..Min(Len(a), Len(b)) :
        /\ SubSeq(a, 1, n) = SubSeq(b, 1, n)
        /\ n < Min(Len(a), Len(b)) => a[n + 1] # b[n + 1]

C18_DisconnectIdempotent ==
    [][\A w \in WebSockets :
        (/\ ws_state[w] = "open" /\ ws_state'[w] = "closed"
         /\ w \notin DOMAIN connection_info)
            => /\ active_connections' = active_connections
               /\ sessions' = sessions
               /\ cleanup_tasks' = cleanup_tasks
               /\ connection_info' = connection_info
               /\ health_checks' = health_checks
               /\ metrics' = metrics
               /\ tasks' = tasks]_vars

\* both websockets connected, a broadcast failed on w1 and disconnected it
\* (the counter went from 2 to 1), and then the endpoint of w1 called
\* disconnect once more
C18_Witness ==
    /\ ws_state["w1"] = "closed"
    /\ "w1" \notin DOMAIN connection_info
    /\ "w2" \in DOMAIN connection_info
    /\ metrics.total_connections = 2
    /\ metrics.active_connections = 1
    /\ "broadcast_error" \in DOMAIN metrics.error_count
    /\ metrics.error_count["broadcast_error"] = 1

\* the errors of a type counted so far
Errors(m, error_type) ==
    IF error_type \in DOMAIN m.error_count THEN m.error_count[error_type] ELSE 0

\* the step is handle_message(w, message) of a message of no known type that
\* passes the rate limit, all sends succeeding
HandlesUnknown(w) ==
    /\ w \in DOMAIN connection_info
    /\ _check_rate_limit(Read(Mgr), connection_info[w].user_id, now).allowed
    /\ Receive(w, [type |-> "save"], {})

\* the counting half: such a call counts an unknown_message_type error
UnknownTypeCounted ==
    [][\A w \in WebSockets :
        HandlesUnknown(w) =>
            Errors(metrics', "unknown_message_type") = Errors(metrics, "unknown_message_type") + 1]_vars

\* C19: handle_message of a message whose type is none of text_change,
\* cursor_change, ping, get_metrics counts an unknown_message_type error and
\* sends an error reply to the sending channel.
C19_UnknownTypeReply ==
    [][\A w \in WebSockets :
        HandlesUnknown(w) =>
            /\ Errors(metrics', "unknown_message_type") = Errors(metrics, "unknown_message_type") + 1
            /\ \E i \in DOMAIN outbox'[w] : outbox'[w][i].type = "error"]_vars

\* C20: when the ping of a health-check sweep to a channel fails to send, the
\* channel is disconnected in that sweep: after it the channel is in no
\* session's connection set and not in the registry.
C20_StaleDisconnected ==
    [][\A failed \in SUBSET WebSockets :
        \A w \in failed :
            (/\ w \in due_for_ping(Mgr, now)
             /\ HealthSweep(failed))
                => /\ w \notin DOMAIN connection_info'
                   /\ \A s \in DOMAIN active_connections' : w \notin active_connections'[s]]_vars

\* C27: for an Insert and a Delete of different clients with the insert
\* position strictly before the start of the delete range,
\* _transform_operation_pair returns the insert as it was and the delete
\* with its position raised by the length of the inserted text.
C27_InsertBeforeDelete ==
    (/\ Transformed
     /\ op1.type = INSERT /\ op2.type = DELETE
     /\ op1.client_id # op2.client_id
     /\ op1.position < op2.position)
    => /\ pair[1] = op1
       /\ pair[2].type = DELETE
       /\ pair[2].length = op2.length
       /\ pair[2].position = op2.position + Len(op1.text)

\* the text left by the operations from the i-th, each applied at its position
\* plus the running offset
RECURSIVE running_offset_text(_, _, _, _)
running_offset_text(T, operations, i, position_offset) ==
    IF i > Len(operations) THEN T
    ELSE LET op == operations[i]
             moved == [op EXCEPT !.position = op.position + position_offset]
         IN  running_offset_text(apply_operation(T, moved), operations, i + 1,
                                 position_offset + offset_after(op))

\* C28: apply_operations on a batch of operations that each pass
\* verify_integrity returns the text obtained by applying the sorted
\* operations one by one, each at its position plus the running offset.
C28_BatchResult ==
    (/\ batch_result # <<>>
     /\ \A i \in 1..Len(batch_ops) : verify_integrity(batch_ops[i]))
    => /\ ~batch_result[1].raised
       /\ batch_result[1].text
            = running_offset_text(batch_text, sorted(batch_ops, 1, <<>>), 1, 0)

\* the operations apply_operations went through, in the order it did
Attempts == batch_result[1].applied \o batch_result[1].failed

\* C29: apply_operations goes through the operations in ascending timestamp
\* order and, among operations of equal timestamp, through Retain before
\* Insert before Delete.
C29_BatchOrder ==
    LET priority(type) == IF type = RETAIN THEN 1 ELSE IF type = INSERT THEN 2 ELSE 3 IN
    batch_result # <<>> =>
        \A i, j \in 1..Len(Attempts) :
            i < j => /\ Attempts[i].timestamp <= Attempts[j].timestamp
                     /\ Attempts[i].timestamp = Attempts[j].timestamp
                            => priority(Attempts[i].type) <= priority(Attempts[j].type)

\* C30: apply_local_operation sets the operation's client_id to the buffer's
\* client_id, raises the buffer's clock entry of that client by exactly 1,
\* gives the operation a copy of the resulting clock that later changes of
\* the buffer's clock do not alter, replaces the content by
\* apply_operation(content, operation) and appends exactly the operation to
\* the end of the history.
C30_ApplyLocal ==
    local # <<>> =>
        \A r \in Replicas : local[r] # <<>> =>
            LET call == local[r][1]
                client_id == call.before.client_id
                history == buffers[r].operation_history
            IN  /\ authored[r].client_id = client_id
                /\ call.after.vector_clock[client_id]
                        = ClockGet(call.before.vector_clock, client_id) + 1
                /\ \A c \in DOMAIN call.after.vector_clock \ {client_id} :
                        /\ c \in DOMAIN call.before.vector_clock
                        /\ call.after.vector_clock[c] = call.before.vector_clock[c]
                /\ authored[r].vector_clock = call.after.vector_clock
                /\ call.after.content = apply_operation(call.before.content, authored[r])
                /\ call.after.operation_history
                        = Append(call.before.operation_history, authored[r])
                /\ LocalIndex(r) > 0 /\ Len(history) >= LocalIndex(r)
                /\ history[LocalIndex(r)] = authored[r]
                /\ \A f \in {"type", "position", "text", "length", "operation_id", "timestamp", "checksum"} :
                        authored[r][f] = call.argument[f]

\* a replica made its call with an operation made for the other client and
\* a history that was not empty, and its buffer's clock has changed since
C30_Witness ==
    /\ local # <<>>
    /\ \E r \in Replicas :
        /\ local[r] # <<>>
        /\ local[r][1].argument.client_id # buffers[r].client_id
        /\ buffers[r].vector_clock # local[r][1].after.vector_clock
    /\ \E r \in Replicas :
        /\ local[r] # <<>>
        /\ local[r][1].before.operation_history # <<>>
        /\ local[r][1].after.content # local[r][1].before.content

C22_EmptySessionCleanup ==
    [][\A task \in StoreTasks :
        (StoreCleanup(task, {}) /\ task.session_id \in DOMAIN redis)
            => IF task.joined
               THEN task.session_id \in DOMAIN redis'
               ELSE task.session_id \notin DOMAIN redis']_vars

\* C23: create_session for an id that has a session in the store leaves the
\* session's content, users, version and created_at as they were, in the
\* store and in what get_session returns, also when a Redis call raises.
C23_CreateIdempotent ==
    [][\A s \in StoreSessions, failed \in SUBSET {"exists", "store"} :
        (StoreCreate(s, failed) /\ s \in DOMAIN redis)
            => /\ redis'[s] = redis[s]
               /\ store_get_session(Store, s, {}).session
                    = store_get_session([Store EXCEPT !.redis = redis',
                                                      !._local_cache = _local_cache',
                                                      !._cache_timestamps = _cache_timestamps'],
                                        s, {}).session]_vars

\* C24: of two successive get_session calls for a session that exists, the
\* second does not return a lower version than the first.
C24_VersionMonotone ==
    \A s \in StoreSessions :
        Len(versions[s]) = 2 => versions[s][1] <= versions[s][2]

\* C21: a send task whose connection has been disconnected does not hand
\* its message to the channel, and a disconnect leaves the send tasks and
\* the suspended broadcasts there are as they were.
C21_DisconnectCancelsSends ==
    [][/\ (RunSendTask /\ Head(tasks).connection \notin DOMAIN connection_info)
            => outbox'[Head(tasks).connection] = outbox[Head(tasks).connection]
       /\ AsyncDisconnect(AsyncListener)
            => /\ awaiting' = awaiting
               /\ SubSeq(tasks', 1, Len(tasks)) = tasks]_vars

\* C26: a text_change is processed in one step of the event loop: its
\* operations are the diff against the content the buffer has when they are
\* applied, so the buffer ends with the content the client sent and its
\* history grows by exactly these operations, whatever broadcasts of the
\* session are suspended.
C26_TextChangeAtomic ==
    [][\A w \in AsyncSenders, message \in AsyncMessages :
        (AsyncReceive(w, message) /\ w \in DOMAIN connection_info) =>
            LET session_id == connection_info[w].session_id
                before == session_buffers[session_id]
                after == session_buffers'[session_id]
                operations == parse_edit_to_operations(before.content, message.content,
                                                       connection_info[w].user_id, now)
                grown == Len(before.operation_history)
            IN  /\ after.content = message.content
                /\ Len(after.operation_history) = grown + Len(operations)
                /\ SubSeq(after.operation_history, 1, grown) = before.operation_history
                /\ \A k \in 1..Len(operations) :
                        \A f \in {"type", "position", "text", "length"} :
                            after.operation_history[grown + k][f] = operations[k][f]]_vars

\* a text_change was processed while the broadcast of another text_change of
\* the session was suspended, and the buffer holds the operations of both
C26_Witness ==
    /\ Cardinality({c \in DOMAIN awaiting : awaiting[c].owner.kind = "message"}) = 2
    /\ \E s \in DOMAIN session_buffers :
        /\ Len(session_buffers[s].operation_history) = 2
        /\ session_buffers[s].content = <<"A", "B">>

\* the characters of T whose 0-based indices are not in removed, in order
RECURSIVE Kept(_, _, _)
Kept(T, removed, i) ==
    IF i > Len(T) THEN <<>>
    ELSE (IF (i - 1) \in removed THEN <<>> ELSE <<T[i]>>) \o Kept(T, removed, i + 1)

\* C31: apply_operation clamps instead of failing: an Insert puts its text
\* at min(max(position, 0), len(text)), and a Delete removes exactly the
\* characters whose indices lie in the intersection of
\* [position, position + length) with [0, len(text)), none when it is empty.
C31_ApplyClamps ==
    unit_result # <<>> =>
        LET op == unit_op[1].op
            T == unit_text
            at == Min(Max(op.position, 0), Len(T))
            removed == {i \in 0..(Len(T) - 1) :
                            op.position <= i /\ i < op.position + op.length}
        IN  /\ ~unit_result[1].raised
            /\ op.type = INSERT =>
                    unit_result[1].text = SubSeq(T, 1, at) \o op.text \o SubSeq(T, at + 1, Len(T))
            /\ op.type = DELETE => unit_result[1].text = Kept(T, removed, 1)

\* a Delete that reaches over an end of the text was applied and removed a
\* part of the text, and so was an Insert whose position is out of range
C31_Witness ==
    /\ unit_result # <<>>
    /\ unit_text # <<>>
    /\ LET op == unit_op[1].op IN
        \/ /\ op.type = DELETE
            /\ op.position < 0
            /\ unit_result[1].text # unit_text
            /\ unit_result[1].text # <<>>
        \/ /\ op.type = DELETE
            /\ op.position > 0 /\ op.position + op.length > Len(unit_text)
            /\ unit_result[1].text # unit_text
        \/ /\ op.type = INSERT
            /\ op.position > Len(unit_text)

\* C32: constructing an Operation raises unless an Insert has non-empty
\* text and length 0, a Delete has empty text and length greater than 0,
\* and a Retain has empty text and length 0.
C32_ConstructionValidates ==
    unit_op # <<>> =>
        (unit_op[1].raised
            <=> ~(\/ unit_args.type = INSERT /\ unit_args.text # <<>> /\ unit_args.length = 0
                  \/ unit_args.type = DELETE /\ unit_args.text = <<>> /\ unit_args.length > 0
                  \/ unit_args.type = RETAIN /\ unit_args.text = <<>> /\ unit_args.length = 0))

\* C33: after a text_change carrying a content has been processed, the
\* session buffer's content is that content, whatever the buffer held.
C33_SnapshotReplaces ==
    \A w \in DOMAIN connection_info, message \in TextChangeMessages, failed \in SUBSET WebSockets :
        LET info == connection_info[w]
            after == handle_message(Read(Mgr), w, message, failed, now)
        IN  (w \notin failed /\ _check_rate_limit(Read(Mgr), info.user_id, now).allowed)
                => after.session_buffers[info.session_id].content = message.content

\* a client sent a snapshot that lacks what another client had written to
\* the buffer, and the buffer holds the snapshot
C33_Witness ==
    \E s \in DOMAIN session_buffers :
        LET history == session_buffers[s].operation_history IN
        /\ Len(history) = 2
        /\ history[1].type = INSERT /\ history[2].type = DELETE
        /\ history[1].operation_id[1] # history[2].operation_id[1]
        /\ session_buffers[s].content = <<"A">>

C38_StateHash ==
    \A r \in Replicas :
        buffers[r].state_hash
            = _calculate_state_hash(buffers[r].content, buffers[r].vector_clock)

\* C39: a connect or disconnect that happens while a sweep is suspended in
\* a ping does not abort the sweep: when the sweep is over, every channel
\* that was due at its start and is still registered has been pinged.
C39_SweepPingsAllDue ==
    \A i \in 1..Len(completed) :
        (completed[i].due \cap DOMAIN connection_info) \subseteq completed[i].pinged

\* the operation out comes from the operation from: same identity, a checksum
\* that matches, a position that is not negative, and the same kind or a
\* retain in place of a delete
Derived(out, from) ==
    /\ out.operation_id = from.operation_id
    /\ out.client_id = from.client_id
    /\ out.timestamp = from.timestamp
    /\ out.vector_clock = from.vector_clock
    /\ verify_integrity(out)
    /\ out.position >= 0
    /\ out.type = from.type \/ (from.type = DELETE /\ out.type = RETAIN)

\* the lists transform_operations gives for ops1 and ops2 have the lengths
\* of ops1 and ops2 and each operation comes from the one in its place
DerivedLists(ops1, ops2) ==
    LET out == transform_operations(ops1, ops2) IN
    /\ Len(out[1]) = Len(ops1) /\ Len(out[2]) = Len(ops2)
    /\ \A k \in 1..Len(ops1) : Derived(out[1][k], ops1[k])
    /\ \A k \in 1..Len(ops2) : Derived(out[2][k], ops2[k])

\* C40: each operation _transform_operation_pair or transform_operations
\* returns keeps the operation id, client id, timestamp and vector clock of
\* the operation it comes from, passes verify_integrity, has a position that
\* is not negative and has the input's kind, except that a delete may become
\* a retain; the lists transform_operations returns have the lengths of its
\* input lists.
C40_TransformKeeps ==
    ot_pc = "transformed" =>
        /\ Derived(pair[1], op1) /\ Derived(pair[2], op2)
        /\ Derived(rev_pair[1], op2) /\ Derived(rev_pair[2], op1)
        /\ DerivedLists(<<op1>>, <<op2>>)
        /\ DerivedLists(<<>>, <<op2>>) /\ DerivedLists(<<op1>>, <<>>)
        \* lists of two: they do not depend on the text, one text is enough
        /\ text = <<>> =>
            /\ \A extra \in GenericOps(op1.client_id, {EmptyClock}) :
                    DerivedLists(<<op1, extra>>, <<op2>>)
            /\ \A extra \in GenericOps(op2.client_id, {EmptyClock}) :
                    DerivedLists(<<op1>>, <<op2, extra>>)

\* two overlapping deletes were transformed: the first became a retain and
\* the second was rebuilt
C40_Witness ==
    /\ ot_pc = "transformed"
    /\ op1.type = DELETE /\ pair[1].type = RETAIN
    /\ op2.type = DELETE /\ pair[2] # op2
====
